---- MODULE Spec2Model ----
(***************************************************************************)
(* Model of the mu32 acquisition core: the live transfer worker            *)
(* (core_base.py MegaMicro), the sample queue, and the broadcast server    *)
(* (core_server.py MegaMicroServer).                                       *)
(***************************************************************************)
EXTENDS Integers, Sequences, FiniteSets, TLC

(***************************************************************************)
(* Bounds of the model                                                     *)
(***************************************************************************)
\* MegaMicro objects that may exist in the process
NumMM == 2
\* frames a device delivers to one session before the model stops looking
MaxFrames == 5

MM == 1..NumMM

(***************************************************************************)
(* Program constants                                                       *)
(***************************************************************************)
DEFAULT_MAX_RETRY_ATTEMPT == 5
DEFAULT_CLOCKDIV == 9
BASE_CLOCK == 500000
DEFAULT_H5_SEQUENCE_DURATION == 1
DEFAULT_H5_FILE_DURATION == 15 * 60

TransferStatus ==
  {"COMPLETED", "CANCELLED", "NO_DEVICE", "ERROR", "TIMED_OUT", "STALL", "OVERFLOW"}

VARIABLES
  \* ---- MegaMicro objects (core_base.py), one entry per object ----
  wpc,              \* position of the transfer thread: none, setup, loop, closing, done
  par,              \* the attributes set by run_setargs
  recording,        \* _recording
  restart_request,  \* _restart_request
  restart_attempt,  \* _restart_attempt
  transfer_index,   \* _transfer_index
  submitted,        \* the transfers that are submitted, in submission order
  thread_exception, \* _transfer_thread_exception is set
  signal_q,         \* MegaMicro._signal_q, the class attribute shared by all objects
  \* ---- observation of the sinks ----
  delivered,        \* number of frames each session pushed downstream
  emitted,          \* all frames pushed downstream, in emission order
  h5_written,       \* frames handed to h5_write_mems, per object
  callback_got,     \* frames handed to the user callback, per object
  taken,            \* frames the caller took from the queue
  stop_called,      \* stop() was called on the object since its run()
  fatal,            \* the first fatal condition that ended the session, per object
  \* ---- one listener subscription and one frame of the broadcast hub ----
  mk_pc,            \* init, listened, sent, decoded
  mk_sess,          \* self._parameters of the running session
  mk_req,           \* message['parameters'] of the listen request
  mk_frame,         \* the frame in the queue, channels x samples
  mk_mask,          \* the reply of service_listen and the mask it stored
  mk_to,            \* whom the frame was sent to: runner or listener
  mk_out,           \* the bytes handed to websocket.send
  mk_decoded,       \* the frame the client rebuilt from the bytes
  \* ---- MegaMicroServer (core_server.py) ----
  cpc,              \* position of the handler coroutine of each connection
  turn,             \* the coroutine that holds the thread of the event loop, or 0
  peer,             \* state of each connection: none, open, closedOK, closedErr
  inbox,            \* messages of each client that the server did not read yet
  sent,             \* messages the server sent on each connection
  srv,              \* the attributes of the server object
  cmm,              \* the mm of service_run, per connection
  cmsg,             \* the message that a service is serving, per connection
  hs,               \* the locals of handler_service_run
  job,              \* the scheduled job: position of its thread and its mm
  \* ---- the data of one object: counter channel and H5 recorder ----
  ctr,              \* the counter channel of the frames the object emitted
  h5,               \* the H5 recorder of the object and the files it wrote
  \* ---- the device commands, the scheduler and the H5 player ----
  act,              \* one call of ctrlMems: its argument and the commands it sent
  usb,              \* the commands and transfers the device was sent in a session
  sched,            \* the task list of the scheduler
  play,             \* the H5 player: its files, its control worker, its frames
  \* ---- the samples of the recorder ----
  wr,               \* the cache of the recorder, its files and the frames it was given
  \* ---- the emission step of processRun, statement by statement ----
  prod,             \* the position of the transfer worker in the step and its frame count
  \* ---- the remote runner (core_ws.py) and the run service that serves it ----
  ws                \* the client's loop, its connection and the session of the server

mmVars == <<wpc, par, recording, restart_request, restart_attempt, transfer_index,
            submitted, thread_exception, signal_q, delivered, emitted, h5_written,
            callback_got, taken, stop_called, fatal>>

hubVars == <<mk_pc, mk_sess, mk_req, mk_frame, mk_mask, mk_to, mk_out, mk_decoded>>

srvVars == <<cpc, turn, peer, inbox, sent, srv, cmm, cmsg, hs, job>>

recVars == <<ctr, h5>>

auxVars == <<act, usb, sched, play>>

extVars == <<wr, prod, ws>>

vars == <<mmVars, hubVars, srvVars, recVars, auxVars, extVars>>

(***************************************************************************)
(* Helpers                                                                 *)
(***************************************************************************)
Max(a, b) == IF a >= b THEN a ELSE b
Min(a, b) == IF a <= b THEN a ELSE b

\* the last n elements of s
LastN(s, n) == SubSeq(s, Len(s) - n + 1, Len(s))

\* the elements of s that satisfy the predicate given as a set
RECURSIVE FilterSeq(_, _)
FilterSeq(s, keep) ==
  IF s = <<>> THEN <<>>
  ELSE IF Head(s) \in keep THEN <<Head(s)>> \o FilterSeq(Tail(s), keep)
  ELSE FilterSeq(Tail(s), keep)

\* s is a subsequence of t (relative order kept)
RECURSIVE IsSubSeq(_, _)
IsSubSeq(s, t) ==
  IF s = <<>> THEN TRUE
  ELSE IF t = <<>> THEN FALSE
  ELSE IF Head(s) = Head(t) THEN IsSubSeq(Tail(s), Tail(t))
  ELSE IsSubSeq(s, Tail(t))

NoDuplicate(s) == \A i, j \in 1..Len(s) : i # j => s[i] # s[j]

\* the k-th frame that object m pushes downstream
Frame(m, k) == <<"frame", m, k>>

(***************************************************************************)
(* run_setargs: derived attributes                                         *)
(***************************************************************************)
\* _clockdiv = max( int( 500000 / sampling_frequency ) - 1, 9 )
Clockdiv(sf) == Max((BASE_CLOCK \div sf) - 1, DEFAULT_CLOCKDIV)

\* _sampling_frequency = 500000 / ( _clockdiv + 1 ); the model only uses
\* requested frequencies for which the quotient is an integer
SamplingFrequency(sf) == BASE_CLOCK \div (Clockdiv(sf) + 1)

\* _transfers_count = int( ( _duration * _sampling_frequency ) // _buffer_length )
TransfersCount(p) ==
  (p.duration * SamplingFrequency(p.sampling_frequency)) \div p.buffer_length

\* the parameters a session of the model may be run with
BasePar == [duration |-> 0, sampling_frequency |-> 50000, buffer_length |-> 50000,
            buffers_number |-> 2, queue_size |-> 0,
            mems |-> <<0, 1>>, analogs |-> <<>>, counter |-> FALSE,
            counter_skip |-> FALSE, status |-> FALSE,
            start_trig |-> FALSE, h5_recording |-> FALSE, callback |-> FALSE,
            h5_dataset_duration |-> DEFAULT_H5_SEQUENCE_DURATION,
            h5_file_duration |-> DEFAULT_H5_FILE_DURATION]

LiveParams ==
  { [BasePar EXCEPT !.duration = d, !.buffer_length = bl, !.buffers_number = bn,
                  !.queue_size = qs, !.counter = c] :
      d \in {0, 1}, bl \in {50000, 30000}, bn \in {2}, qs \in {0, 1, 2},
      c \in BOOLEAN }
  \cup { [BasePar EXCEPT !.duration = d, !.h5_recording = h, !.callback = cb,
                       !.start_trig = st] :
      d \in {0, 1}, h \in BOOLEAN, cb \in BOOLEAN, st \in BOOLEAN }

(***************************************************************************)
(* MegaMicro.run (non blocking mode) and MegaMicro.stop                    *)
(***************************************************************************)
\* run(): run_setargs, then the transfer thread is started
Run(m, p) ==
  /\ wpc[m] = "none"
  /\ wpc' = [wpc EXCEPT ![m] = "setup"]
  /\ par' = [par EXCEPT ![m] = p]
  /\ stop_called' = [stop_called EXCEPT ![m] = FALSE]
  /\ fatal' = [fatal EXCEPT ![m] = "none"]
  /\ UNCHANGED <<recording, restart_request, restart_attempt, transfer_index,
                 submitted, thread_exception, signal_q, delivered, emitted,
                 h5_written, callback_got, taken>>

\* run() on an object whose transfer thread has terminated: run_setargs sets
\* the parameters again and a new thread is started; the attributes that
\* neither run_setargs nor transfer_loop assigns keep their value
Rerun(m, p) ==
  /\ wpc[m] = "done"
  /\ wpc' = [wpc EXCEPT ![m] = "setup"]
  /\ par' = [par EXCEPT ![m] = p]
  /\ stop_called' = [stop_called EXCEPT ![m] = FALSE]
  /\ fatal' = [fatal EXCEPT ![m] = "none"]
  /\ UNCHANGED <<recording, restart_request, restart_attempt, transfer_index,
                 submitted, thread_exception, signal_q, delivered, emitted,
                 h5_written, callback_got, taken>>

\* stop(): self._recording = False
Stop(m) ==
  /\ wpc[m] # "none"
  /\ recording' = [recording EXCEPT ![m] = FALSE]
  /\ stop_called' = [stop_called EXCEPT ![m] = TRUE]
  /\ UNCHANGED <<wpc, par, restart_request, restart_attempt, transfer_index,
                 submitted, thread_exception, signal_q, delivered, emitted,
                 h5_written, callback_got, taken, fatal>>

(***************************************************************************)
(* MegaMicro.transfer_loop, first part: device setup up to the recording   *)
(* loop                                                                    *)
(***************************************************************************)
\* outcome: "ok", "nodevice" (handle is None), "ctrlfail" (a control write raises)
TransferSetup(m, outcome) ==
  /\ wpc[m] = "setup"
  /\ IF outcome = "ok"
     THEN /\ wpc' = [wpc EXCEPT ![m] = "loop"]
          /\ submitted' = [submitted EXCEPT ![m] =
                             [i \in 1..par[m].buffers_number |-> i]]
          /\ transfer_index' = [transfer_index EXCEPT ![m] = 0]
          /\ recording' = [recording EXCEPT ![m] = TRUE]
          /\ restart_request' = [restart_request EXCEPT ![m] = FALSE]
          /\ UNCHANGED thread_exception
     ELSE /\ wpc' = [wpc EXCEPT ![m] = "done"]
          /\ thread_exception' = [thread_exception EXCEPT ![m] = TRUE]
          /\ UNCHANGED <<submitted, transfer_index, recording, restart_request>>
  /\ UNCHANGED <<par, restart_attempt, signal_q, delivered, emitted, h5_written,
                 callback_got, taken, stop_called, fatal>>

(***************************************************************************)
(* MegaMicro.processRun: the completion callback of one transfer           *)
(***************************************************************************)
\* the queue after processRun has pushed frame f (lines 1049-1054)
QueuePut_NoEviction(q, qsize, f) == Append(q, f)
QueuePut(q, qsize, f) ==
  IF qsize > 0 /\ Len(q) >= qsize THEN Append(Tail(q), f) ELSE Append(q, f)

\* the statuses that processRun logs as an error of the transfer
\* the completion status that is retried: "elif transfer.getStatus() ==
\* usb1.TRANSFER_TIMED_OUT: if self._start_trig:"
Retried_AnyTimeout(p, st) == st = "TIMED_OUT"
Retried(p, st) == st = "TIMED_OUT" /\ p.start_trig

\* "if self._restart_request == True: return" at the head of processRun
RestartPending_Ignored(m) == FALSE
RestartPending(m) == restart_request[m]

FatalStatus == {"NO_DEVICE", "ERROR", "TIMED_OUT", "STALL", "OVERFLOW"}

\* inputs: st the transfer status, full whether all the words arrived, aligned
\* whether the counter check passes, h5ok / cbok / subok whether the H5 write,
\* the user callback and transfer.submit() return without raising
ProcessRun(m, st, full, aligned, h5ok, cbok, subok) ==
  /\ wpc[m] = "loop"
  /\ submitted[m] # <<>>
  /\ LET t     == Head(submitted[m])
         rest  == Tail(submitted[m])
         p     == par[m]
         \* "if self._recording: try transfer.submit() except: _recording = False"
         resub(rec) == IF rec /\ subok THEN Append(rest, t) ELSE rest
         recAfterSub(rec) == rec /\ subok
     IN
     IF RestartPending(m)
     THEN \* a restart is pending: nothing is done, the transfer is not resubmitted
          /\ submitted' = [submitted EXCEPT ![m] = rest]
          /\ UNCHANGED <<recording, restart_request, restart_attempt, transfer_index,
                         signal_q, delivered, emitted, h5_written, callback_got>>
     ELSE IF st # "COMPLETED"
     THEN IF Retried(p, st)
          THEN /\ submitted' = [submitted EXCEPT ![m] = resub(recording[m])]
               /\ recording' = [recording EXCEPT ![m] = recAfterSub(recording[m])]
               /\ UNCHANGED <<restart_request, restart_attempt, transfer_index,
                              signal_q, delivered, emitted, h5_written, callback_got>>
          ELSE /\ submitted' = [submitted EXCEPT ![m] = rest]
               /\ recording' = [recording EXCEPT ![m] = FALSE]
               /\ UNCHANGED <<restart_request, restart_attempt, transfer_index,
                              signal_q, delivered, emitted, h5_written, callback_got>>
     ELSE IF ~full
     THEN \* some words are missing: the frame is dropped, the transfer resubmitted
          /\ submitted' = [submitted EXCEPT ![m] = resub(recording[m])]
          /\ recording' = [recording EXCEPT ![m] = recAfterSub(recording[m])]
          /\ UNCHANGED <<restart_request, restart_attempt, transfer_index,
                         signal_q, delivered, emitted, h5_written, callback_got>>
     ELSE IF p.counter /\ ~aligned
     THEN \* misalignment: restart request, no resubmission
          /\ submitted' = [submitted EXCEPT ![m] = rest]
          /\ restart_request' = [restart_request EXCEPT ![m] = TRUE]
          /\ UNCHANGED <<recording, restart_attempt, transfer_index,
                         signal_q, delivered, emitted, h5_written, callback_got>>
     ELSE \* the frame is valid and goes downstream
          LET f    == Frame(m, delivered[m] + 1)
              rec1 == IF p.h5_recording /\ ~h5ok THEN FALSE ELSE recording[m]
              rec2 == IF p.callback /\ ~cbok THEN FALSE ELSE rec1
              rec3 == recAfterSub(rec2)
              idx  == transfer_index[m] + 1
              rec4 == IF TransfersCount(p) # 0 /\ idx > TransfersCount(p)
                      THEN FALSE ELSE rec3
          IN
          /\ delivered[m] < MaxFrames
          /\ delivered' = [delivered EXCEPT ![m] = @ + 1]
          /\ emitted' = Append(emitted, f)
          /\ restart_attempt' = [restart_attempt EXCEPT ![m] =
                                   IF p.counter THEN 0 ELSE @]
          /\ h5_written' = [h5_written EXCEPT ![m] =
                              IF p.h5_recording /\ h5ok THEN Append(@, f) ELSE @]
          /\ callback_got' = [callback_got EXCEPT ![m] =
                                IF p.callback THEN Append(@, f) ELSE @]
          /\ signal_q' = IF p.callback THEN signal_q
                         ELSE QueuePut(signal_q, p.queue_size, f)
          /\ submitted' = [submitted EXCEPT ![m] = resub(rec2)]
          /\ transfer_index' = [transfer_index EXCEPT ![m] = idx]
          /\ recording' = [recording EXCEPT ![m] = rec4]
          /\ UNCHANGED restart_request
  /\ fatal' = [fatal EXCEPT ![m] =
                 IF @ # "none" \/ ~recording[m] \/ restart_request[m] THEN @
                 ELSE IF st \in FatalStatus /\ ~(st = "TIMED_OUT" /\ par[m].start_trig)
                      THEN "status"
                 ELSE IF /\ st = "COMPLETED" /\ full /\ (par[m].counter => aligned)
                         /\ par[m].h5_recording /\ ~h5ok
                      THEN "h5"
                 ELSE @]
  /\ UNCHANGED <<wpc, par, thread_exception, taken, stop_called>>

\* context.handleEvents() in the recording loop: one transfer completes with
\* a status of statuses; oks is {TRUE} when nothing else fails, BOOLEAN when
\* the data, the H5 write, the callback and the resubmission may fail (an
\* input is only varied where processRun looks at it)
HandleEvents(m, statuses, oks) ==
  \E st \in statuses, full \in oks, subok \in oks,
     aligned \in (IF par[m].counter THEN oks ELSE {TRUE}),
     h5ok \in (IF par[m].h5_recording THEN oks ELSE {TRUE}),
     cbok \in (IF par[m].callback THEN oks ELSE {TRUE}) :
    ProcessRun(m, st, full, aligned, h5ok, cbok, subok)

(***************************************************************************)
(* MegaMicro.transfer_loop: the outer recording loop, once no transfer is  *)
(* submitted (lines 1579-1625)                                             *)
(***************************************************************************)
RecordingLoop(m) ==
  /\ wpc[m] = "loop"
  /\ submitted[m] = <<>>
  /\ IF restart_request[m] /\ recording[m]
     THEN LET att == restart_attempt[m] + 1 IN
          /\ restart_attempt' = [restart_attempt EXCEPT ![m] = att]
          /\ restart_request' = [restart_request EXCEPT ![m] = FALSE]
          /\ IF att < DEFAULT_MAX_RETRY_ATTEMPT
             THEN \* ctrlResetFx3, then every transfer is submitted again
                  /\ submitted' = [submitted EXCEPT ![m] =
                                     [i \in 1..par[m].buffers_number |-> i]]
                  /\ UNCHANGED <<recording, wpc>>
             ELSE /\ recording' = [recording EXCEPT ![m] = FALSE]
                  /\ wpc' = [wpc EXCEPT ![m] = "closing"]
                  /\ UNCHANGED submitted
          /\ fatal' = [fatal EXCEPT ![m] =
                         IF @ = "none" /\ att >= DEFAULT_MAX_RETRY_ATTEMPT
                         THEN "retry" ELSE @]
     ELSE \* "quitting recording loop": the while condition is tested again
          /\ ~recording[m]
          /\ wpc' = [wpc EXCEPT ![m] = "closing"]
          /\ UNCHANGED <<restart_attempt, restart_request, submitted, recording, fatal>>
  /\ UNCHANGED <<par, transfer_index, thread_exception, signal_q, delivered,
                 emitted, h5_written, callback_got, taken, stop_called>>

\* after the loop: h5_close, cancel and drain, ctrlStop, flush, ctrlResetMu32
TransferShutdown(m, ok) ==
  /\ wpc[m] = "closing"
  /\ wpc' = [wpc EXCEPT ![m] = "done"]
  /\ thread_exception' = [thread_exception EXCEPT ![m] = IF ok THEN @ ELSE TRUE]
  /\ UNCHANGED <<par, recording, restart_request, restart_attempt, transfer_index,
                 submitted, signal_q, delivered, emitted, h5_written, callback_got,
                 taken, stop_called, fatal>>

(***************************************************************************)
(* The caller takes a frame from the queue: signal_q.get()                 *)
(***************************************************************************)
\* queue.Queue.get: the oldest item is removed and returned
QueueGet_NoRemove(q) == [item |-> Head(q), rest |-> q]
QueueGet(q) == [item |-> Head(q), rest |-> Tail(q)]

Take ==
  /\ signal_q # <<>>
  /\ taken' = Append(taken, QueueGet(signal_q).item)
  /\ signal_q' = QueueGet(signal_q).rest
  /\ UNCHANGED <<wpc, par, recording, restart_request, restart_attempt,
                 transfer_index, submitted, thread_exception, delivered, emitted,
                 h5_written, callback_got, stop_called, fatal>>

(***************************************************************************)
(* Broadcast hub: the mask of a listener (service_listen) and the byte     *)
(* image of a frame (handler_service_run), as pure functions               *)
(***************************************************************************)
\* samples per channel of the frames of the hub model
HubBufferLength == 2

BYTE == 256

\* rows of the frame processRun pushes downstream, first to last:
\* the counter unless skipped, the mems, the analogs, the status
RowLabels(sess) ==
  (IF sess.counter /\ ~(sess.counter /\ sess.counter_skip)
     THEN <<<<"counter", 0>>>> ELSE <<>>)
  \o [i \in 1..Len(sess.mems) |-> <<"mem", sess.mems[i]>>]
  \o [i \in 1..Len(sess.analogs) |-> <<"analog", sess.analogs[i]>>]
  \o (IF sess.status THEN <<<<"status", 0>>>> ELSE <<>>)

\* list( np.isin( a, b ) )
IsIn(a, b) == [i \in 1..Len(a) |-> \E j \in 1..Len(b) : b[j] = a[i]]

\* sum( mask )
CountTrue(mask) == Cardinality({i \in 1..Len(mask) : mask[i]})

\* service_listen, lines 1407-1427: the mask, or the rejection of the request
ListenMask(sess, req) ==
  LET mask_mems == IsIn(sess.mems, req.mems)
      mask_analogs == IsIn(sess.analogs, req.analogs)
  IN
  IF CountTrue(mask_mems) # Len(req.mems) THEN [ok |-> FALSE, mask |-> <<>>]
  ELSE IF CountTrue(mask_analogs) # Len(req.analogs) THEN [ok |-> FALSE, mask |-> <<>>]
  ELSE IF req.counter /\ (~sess.counter \/ (sess.counter /\ sess.counter_skip))
       THEN [ok |-> FALSE, mask |-> <<>>]
  ELSE IF req.status /\ ~sess.status THEN [ok |-> FALSE, mask |-> <<>>]
  ELSE [ok |-> TRUE,
        mask |-> (IF req.counter THEN <<TRUE>> ELSE <<>>)
                 \o mask_mems \o mask_analogs
                 \o (IF req.status THEN <<TRUE>> ELSE <<>>)]

\* a matrix is a sequence of rows of equal length
NRows(M) == Len(M)
NCols(M) == IF M = <<>> THEN 0 ELSE Len(M[1])

\* ndarray.T
Transpose(M) == [c \in 1..NCols(M) |-> [r \in 1..NRows(M) |-> M[r][c]]]

\* the positions of the true entries of a mask, in increasing order
RECURSIVE TruePositions(_, _)
TruePositions(mask, i) ==
  IF i > Len(mask) THEN <<>>
  ELSE (IF mask[i] THEN <<i>> ELSE <<>>) \o TruePositions(mask, i + 1)

\* data[:, mask] with a list of booleans; numpy raises IndexError when the
\* length of the mask differs from the number of columns
MaskFits(D, mask) == Len(mask) = NCols(D)
SelectColumns(D, mask) ==
  LET pos == TruePositions(mask, 1)
  IN [r \in 1..NRows(D) |-> [k \in 1..Len(pos) |-> D[r][pos[k]]]]

\* the four bytes of a 32 bit word, little endian, two's complement
\* (w is an int32; \div rounds down, so the high byte carries the sign)
WordBytes(w) ==
  <<w % BYTE, (w \div BYTE) % BYTE, (w \div (BYTE * BYTE)) % BYTE,
    (w \div (BYTE * BYTE * BYTE)) % BYTE>>

\* the int32 read from four little endian bytes (np.frombuffer, dtype int32)
BytesWord(b) ==
  LET high == IF b[4] >= BYTE \div 2 THEN b[4] - BYTE ELSE b[4]
  IN b[1] + BYTE * (b[2] + BYTE * (b[3] + BYTE * high))

RECURSIVE Concat(_)
Concat(ss) == IF ss = <<>> THEN <<>> ELSE Head(ss) \o Concat(Tail(ss))

\* ndarray.tobytes(): the elements in C order, row after row
ToBytes(D) == Concat([r \in 1..NRows(D) |-> Concat([c \in 1..NCols(D) |-> WordBytes(D[r][c])])])

\* what the runner is sent for a frame taken from the queue (lines 1565, 1574)
RunnerOutput_NoTranspose(frame) == ToBytes(frame)
RunnerOutput(frame) == ToBytes(Transpose(frame))

\* what a listener is sent (lines 1565, 1580); IndexError when the mask does not fit
ListenerOutput(frame, mask) == ToBytes(SelectColumns(Transpose(frame), mask))

\* the client side: np.frombuffer, reshape( buffer_length, channels ).T
\* (core_ws.py 863-870)
FromBuffer(bytes) ==
  [k \in 1..(Len(bytes) \div 4) |-> BytesWord(SubSeq(bytes, 4 * k - 3, 4 * k))]
Reshape(words, rows, cols) ==
  [r \in 1..rows |-> [c \in 1..cols |-> words[(r - 1) * cols + c]]]
ClientDecode(bytes, buffer_length, channels) ==
  Transpose(Reshape(FromBuffer(bytes), buffer_length, channels))

\* sessions, listen requests and frames of the hub model
HubSessions ==
  [mems : {<<0, 1>>, <<0, 1, 2>>}, analogs : {<<>>, <<0>>},
   counter : BOOLEAN, counter_skip : BOOLEAN, status : BOOLEAN]
HubRequests ==
  [mems : {<<>>, <<1>>, <<1, 0>>, <<0, 2>>, <<3>>}, analogs : {<<>>, <<0>>},
   counter : BOOLEAN, status : BOOLEAN]
HubSeeds == {0, -300}

\* a frame whose words are all different: seed + 256 * row + sample
HubFrame(sess, seed) ==
  [r \in 1..Len(RowLabels(sess)) |->
     [k \in 1..HubBufferLength |-> seed + 256 * (r - 1) + (k - 1)]]

NoMask == [ok |-> FALSE, mask |-> <<>>]
NoSess == [mems |-> <<>>, analogs |-> <<>>, counter |-> FALSE,
           counter_skip |-> FALSE, status |-> FALSE]
NoReq == [mems |-> <<>>, analogs |-> <<>>, counter |-> FALSE, status |-> FALSE]

HubIdle ==
  /\ mk_pc = "idle"
  /\ mk_sess = NoSess
  /\ mk_req = NoReq
  /\ mk_frame = <<>>
  /\ mk_mask = NoMask
  /\ mk_to = "none"
  /\ mk_out = <<>>
  /\ mk_decoded = <<>>

HubInit ==
  /\ mk_pc = "init"
  /\ mk_sess \in HubSessions
  /\ mk_req \in HubRequests
  /\ mk_frame \in {HubFrame(mk_sess, seed) : seed \in HubSeeds}
  /\ mk_mask = NoMask
  /\ mk_to = "none"
  /\ mk_out = <<>>
  /\ mk_decoded = <<>>

\* service_listen: the request is checked and the mask stored
HubListen ==
  /\ mk_pc = "init"
  /\ mk_mask' = ListenMask(mk_sess, mk_req)
  /\ mk_pc' = "listened"
  /\ UNCHANGED <<mk_sess, mk_req, mk_frame, mk_to, mk_out, mk_decoded>>

\* handler_service_run: the frame is sent to the runner
HubSendRunner ==
  /\ mk_pc \in {"init", "listened"}
  /\ mk_out' = RunnerOutput(mk_frame)
  /\ mk_to' = "runner"
  /\ mk_pc' = "sent"
  /\ UNCHANGED <<mk_sess, mk_req, mk_frame, mk_mask, mk_decoded>>

\* handler_service_run: the frame is sent to the accepted listener
HubSendListener ==
  /\ mk_pc = "listened"
  /\ mk_mask.ok
  /\ IF MaskFits(Transpose(mk_frame), mk_mask.mask)
     THEN /\ mk_out' = ListenerOutput(mk_frame, mk_mask.mask)
          /\ mk_to' = "listener"
     ELSE /\ mk_out' = <<>>
          /\ mk_to' = "IndexError"
  /\ mk_pc' = "sent"
  /\ UNCHANGED <<mk_sess, mk_req, mk_frame, mk_mask, mk_decoded>>

\* MegaMicroWS.transfer_loop of the runner: the message is decoded
HubClientDecode ==
  /\ mk_pc = "sent"
  /\ mk_to = "runner"
  /\ mk_decoded' = ClientDecode(mk_out, HubBufferLength, NRows(mk_frame))
  /\ mk_pc' = "decoded"
  /\ UNCHANGED <<mk_sess, mk_req, mk_frame, mk_mask, mk_to, mk_out>>

(***************************************************************************)
(* MegaMicroServer (core_server.py): connections, run and listen services, *)
(* the broadcast loop, one scheduled job                                   *)
(***************************************************************************)
\* connections the model opens
NumConn == 3

Conn == 1..NumConn

DEFAULT_MAX_CONNECTIONS == 5

\* the holder of the semaphore when it is the scheduler thread
JOB == NumConn + 1

\* messages sent to a client other than frames
Reply(r) == <<r, 0, 0>>

\* the first MegaMicro object that was not created yet
FreeMM == {m \in MM : wpc[m] = "none"}
NewMM == CHOOSE m \in FreeMM : \A n \in FreeMM : m <= n

\* run requests and scheduled jobs that will create an object
Pending ==
  Cardinality({c \in Conn : \/ cpc[c] \in {"run_acquire", "run_blocked"}
                            \/ \E i \in 1..Len(inbox[c]) : inbox[c][i].request = "run"})
  + (IF job.pc = "acquire" THEN 1 ELSE 0)

\* the parameters of the run requests and of the scheduled job
JobParams == [BasePar EXCEPT !.duration = 1, !.h5_recording = TRUE]
ServerParams == {[BasePar EXCEPT !.duration = 0], JobParams}
ListenRequests ==
  {[mems |-> <<1>>, analogs |-> <<>>, counter |-> FALSE, status |-> FALSE],
   [mems |-> <<2>>, analogs |-> <<>>, counter |-> FALSE, status |-> FALSE]}

NoRequest == [request |-> "none", parameters |-> BasePar, stream_skip |-> FALSE,
              listen |-> NoReq, mask |-> <<>>]
RunRequests ==
  {[NoRequest EXCEPT !.request = "run", !.parameters = p, !.stream_skip = sk] :
      p \in ServerParams, sk \in BOOLEAN}
SubscribeRequests ==
  {[NoRequest EXCEPT !.request = "listen", !.listen = r] : r \in ListenRequests}

\* the attributes of a session that service_listen reads in self._parameters
SessionOf(p) == [mems |-> p.mems, analogs |-> p.analogs, counter |-> p.counter,
                 counter_skip |-> p.counter_skip, status |-> p.status]

NoFrame == <<"none", 0, 0>>
HandlerIdle == [conn |-> 0, mm |-> 0, stream_skip |-> FALSE, data |-> NoFrame,
                idx |-> 0, to_stop |-> <<>>, failed |-> {}]

SrvInitWith(maxconnect) ==
  /\ cpc = [c \in Conn |-> "closed"]
  /\ turn = 0
  /\ peer = [c \in Conn |-> "none"]
  /\ inbox = [c \in Conn |-> <<>>]
  /\ sent = [c \in Conn |-> <<>>]
  /\ srv = [connected |-> {}, megamicro_sem |-> 0, mm |-> 0,
            maxconnect |-> maxconnect,
            parameters |-> SessionOf(BasePar),
            broadcast_none |-> TRUE, broadcast_connected |-> <<>>]
  /\ cmm = [c \in Conn |-> 0]
  /\ cmsg = [c \in Conn |-> NoRequest]
  /\ hs = HandlerIdle
  /\ job = [pc |-> "idle", mm |-> 0]

\* the server as it is constructed without a maxconnect argument
SrvInit == SrvInitWith(DEFAULT_MAX_CONNECTIONS)

\* the coroutine of connection c may run: no other coroutine holds the thread
\* of the event loop
CanRun(c) == turn \in {0, c}

\* what a send or a recv on connection c may find: a connection that was found
\* closed stays closed, an open one may have been closed by the client, cleanly
\* (ConnectionClosedOK) or not (ConnectionClosedError)
PeerNow(c) == IF peer[c] = "open" THEN {"open", "closedOK", "closedErr"} ELSE {peer[c]}

\* ---- the clients ----
\* the client connects and sends its request, one per connection; handler()
\* accepts the connection up to its first await. A run is only asked for
\* while an object of MM is left for it.
ClientConnect(c, req) ==
  /\ peer[c] = "none"
  /\ turn = 0
  /\ req.request = "run" => Cardinality(MM \ FreeMM) + Pending < NumMM
  /\ peer' = [peer EXCEPT ![c] = "open"]
  /\ IF Cardinality(srv.connected) > srv.maxconnect
     THEN /\ sent' = [sent EXCEPT ![c] = Append(@, Reply("NOT OK"))]
          /\ cpc' = [cpc EXCEPT ![c] = "ended"]
          /\ UNCHANGED <<srv, inbox>>
     ELSE /\ srv' = [srv EXCEPT !.connected = @ \cup {c}]
          /\ cpc' = [cpc EXCEPT ![c] = "recv"]
          /\ inbox' = [inbox EXCEPT ![c] = <<req>>]
          /\ UNCHANGED sent
  /\ UNCHANGED <<turn, cmm, cmsg, hs, job>>
  /\ UNCHANGED mmVars

\* ---- handler(): end of the coroutine of a connection ----
\* an exception reaches handler(), or the loop is left: the semaphore is
\* released when the exception crossed the "with" of service_run, the client
\* entry is deleted
SrvAfterExit(c) ==
  [srv EXCEPT !.connected = @ \ {c},
              !.megamicro_sem = IF @ = c THEN 0 ELSE @]

\* the reply of handler() to a request it does not know: type error,
\* response NOT OK
UnknownRequestReply_Accepted == Reply("OK")
UnknownRequestReply == Reply("NOT OK")

\* ---- handler(): a request is received and dispatched ----
\* up to the first await of the service; now is the state the connection is
\* found in
HandlerRecv(c, now) ==
  /\ cpc[c] = "recv"
  /\ CanRun(c)
  /\ now \in PeerNow(c)
  /\ peer' = [peer EXCEPT ![c] = now]
  /\ IF inbox[c] # <<>>
     THEN LET msg == Head(inbox[c]) IN
          /\ inbox' = [inbox EXCEPT ![c] = Tail(@)]
          /\ IF now # "open"
             THEN \* every service starts by a send, which raises
                  /\ cpc' = [cpc EXCEPT ![c] = "ended"]
                  /\ srv' = SrvAfterExit(c)
                  /\ UNCHANGED <<sent, cmsg>>
             ELSE IF msg.request = "run"
             THEN \* service_run: the request is accepted
                  /\ sent' = [sent EXCEPT ![c] = Append(@, Reply("OK"))]
                  /\ cpc' = [cpc EXCEPT ![c] = "run_acquire"]
                  /\ cmsg' = [cmsg EXCEPT ![c] = msg]
                  /\ UNCHANGED srv
             ELSE IF msg.request = "listen"
             THEN \* service_listen up to its reply
                  LET res == ListenMask(srv.parameters, msg.listen) IN
                  IF srv.broadcast_none \/ srv.broadcast_connected = <<>> \/ ~res.ok
                  THEN /\ sent' = [sent EXCEPT ![c] = Append(@, Reply("NOT OK"))]
                       /\ UNCHANGED <<cpc, srv, cmsg>>
                  ELSE /\ sent' = [sent EXCEPT ![c] = Append(@, Reply("OK"))]
                       /\ cpc' = [cpc EXCEPT ![c] = "listen_append"]
                       /\ cmsg' = [cmsg EXCEPT ![c] = [msg EXCEPT !.mask = res.mask]]
                       /\ UNCHANGED srv
             ELSE \* unknown request
                  /\ sent' = [sent EXCEPT ![c] = Append(@, UnknownRequestReply)]
                  /\ UNCHANGED <<cpc, srv, cmsg>>
     ELSE \* recv() raises on a closed connection
          /\ now # "open"
          /\ cpc' = [cpc EXCEPT ![c] = "ended"]
          /\ srv' = SrvAfterExit(c)
          /\ UNCHANGED <<inbox, sent, cmsg>>
  /\ turn' = 0
  /\ UNCHANGED <<cmm, hs, job>>
  /\ UNCHANGED mmVars

\* ---- service_listen: after the OK reply, the listener is appended ----
ServiceListenAppend(c, now) ==
  /\ cpc[c] = "listen_append"
  /\ CanRun(c)
  /\ IF srv.broadcast_none
     THEN \* None has no append: the exception handler replies NOT OK
          /\ now \in PeerNow(c)
          /\ peer' = [peer EXCEPT ![c] = now]
          /\ IF now = "open"
             THEN /\ sent' = [sent EXCEPT ![c] = Append(@, Reply("NOT OK"))]
                  /\ cpc' = [cpc EXCEPT ![c] = "recv"]
                  /\ UNCHANGED srv
             ELSE /\ cpc' = [cpc EXCEPT ![c] = "ended"]
                  /\ srv' = SrvAfterExit(c)
                  /\ UNCHANGED sent
     ELSE /\ now = peer[c]
          /\ srv' = [srv EXCEPT !.broadcast_connected =
                       Append(@, [id |-> Len(srv.broadcast_connected), websocket |-> c,
                                  mask |-> cmsg[c].mask])]
          /\ cpc' = [cpc EXCEPT ![c] = "recv"]
          /\ UNCHANGED <<sent, peer>>
  /\ turn' = 0
  /\ UNCHANGED <<inbox, cmm, cmsg, hs, job>>
  /\ UNCHANGED mmVars

\* ---- service_run: "with self._megamicro_sem", then mm.run() ----
\* the acquire blocks the thread of the event loop while the semaphore is held
ServiceRunAcquire(c) ==
  /\ cpc[c] \in {"run_acquire", "run_blocked"}
  /\ CanRun(c)
  /\ IF srv.megamicro_sem = 0
     THEN /\ srv' = [srv EXCEPT !.megamicro_sem = c, !.mm = NewMM,
                                !.parameters = SessionOf(cmsg[c].parameters)]
          /\ cmm' = [cmm EXCEPT ![c] = NewMM]
          /\ cpc' = [cpc EXCEPT ![c] = "handler_start"]
          /\ turn' = 0
          /\ Run(NewMM, cmsg[c].parameters)
     ELSE /\ cpc[c] = "run_acquire"
          /\ cpc' = [cpc EXCEPT ![c] = "run_blocked"]
          /\ turn' = c
          /\ UNCHANGED <<srv, cmm>>
          /\ UNCHANGED mmVars
  /\ UNCHANGED <<peer, inbox, sent, cmsg, hs, job>>

\* ---- handler_service_run: start of the task ----
HandlerServiceRunStart(c) ==
  /\ cpc[c] = "handler_start"
  /\ CanRun(c)
  /\ srv' = [srv EXCEPT !.broadcast_none = FALSE,
                        !.broadcast_connected = <<[id |-> 0, websocket |-> c, mask |-> <<>>]>>]
  /\ hs' = [HandlerIdle EXCEPT !.conn = c, !.mm = srv.mm,
                               !.stream_skip = cmsg[c].stream_skip]
  /\ cpc' = [cpc EXCEPT ![c] = "get"]
  /\ turn' = c
  /\ UNCHANGED <<peer, inbox, sent, cmm, cmsg, job>>
  /\ UNCHANGED mmVars

\* mm.signal_q.get( block=True, timeout=2 ): a frame is there
HandlerGet(c) ==
  /\ cpc[c] = "get"
  /\ signal_q # <<>>
  /\ hs' = [hs EXCEPT !.data = QueueGet(signal_q).item, !.idx = 1, !.to_stop = <<>>,
                      !.failed = {}]
  /\ signal_q' = QueueGet(signal_q).rest
  /\ taken' = Append(taken, QueueGet(signal_q).item)
  /\ cpc' = [cpc EXCEPT ![c] = "fanout"]
  /\ UNCHANGED <<turn, peer, inbox, sent, srv, cmm, cmsg, job>>
  /\ UNCHANGED <<wpc, par, recording, restart_request, restart_attempt,
                 transfer_index, submitted, thread_exception, delivered, emitted,
                 h5_written, callback_got, stop_called, fatal>>

\* no frame of object m for 2 s: frames are less than 2 s apart while the
\* device delivers, so the worker records no more, or the device waits for
\* the external trigger
NoFrameFor2s(m) == ~recording[m] \/ par[m].start_trig

\* mm.signal_q.get raises queue.Empty after the timeout: end of the loop
HandlerGetEmpty(c) ==
  /\ cpc[c] = "get"
  /\ signal_q = <<>>
  /\ wpc[hs.mm] # "setup"
  /\ NoFrameFor2s(hs.mm)
  /\ hs' = [hs EXCEPT !.idx = 1]
  /\ cpc' = [cpc EXCEPT ![c] = "end"]
  /\ UNCHANGED <<turn, peer, inbox, sent, srv, cmm, cmsg, job>>
  /\ UNCHANGED mmVars

\* the service stops the session and returns to service_run, which joins the
\* transfer thread: self._mm.stop(); self._broadcast_connected = None; return
HandlerStopAndReturn(c) ==
  /\ Stop(srv.mm)
  /\ srv' = [srv EXCEPT !.broadcast_none = TRUE, !.broadcast_connected = <<>>]
  /\ cpc' = [cpc EXCEPT ![c] = "wait"]
  /\ turn' = c

\* the outer exception handler: self._mm.stop(); raise e. The exception leaves
\* service_run through the "with" and ends in handler()
HandlerStopAndRaise(c) ==
  /\ Stop(srv.mm)
  /\ cpc' = [cpc EXCEPT ![c] = "ended"]
  /\ turn' = 0

\* "if not stream_skip or ( stream_skip and len( self._broadcast_connected ) == 1 )":
\* whether the frame goes to the runner
SendToRunner_Always(stream_skip, list) == TRUE
SendToRunner(stream_skip, list) == ~stream_skip \/ (stream_skip /\ Len(list) = 1)

\* one iteration of "for host in self._broadcast_connected"; now is the state
\* the connection of the host is found in
HandlerFanout(c, now) ==
  /\ cpc[c] = "fanout"
  /\ CanRun(c)
  /\ hs.idx <= Len(srv.broadcast_connected)
  /\ LET host == srv.broadcast_connected[hs.idx]
         to   == host.websocket
         rows == Len(RowLabels(srv.parameters))
     IN
     IF host.id = 0
     THEN IF SendToRunner(hs.stream_skip, srv.broadcast_connected)
          THEN /\ now \in PeerNow(c)
               /\ peer' = [peer EXCEPT ![c] = now]
               /\ IF now = "open"
                  THEN /\ sent' = [sent EXCEPT ![c] = Append(@, hs.data)]
                       /\ hs' = [hs EXCEPT !.idx = @ + 1]
                       /\ turn' = 0
                       /\ UNCHANGED <<cpc, srv>>
                       /\ UNCHANGED mmVars
                  ELSE \* connection lost with the runner, whatever the exception
                       /\ HandlerStopAndReturn(c)
                       /\ UNCHANGED <<sent, hs>>
          ELSE /\ now = peer[c]
               /\ hs' = [hs EXCEPT !.idx = @ + 1]
               /\ turn' = c
               /\ UNCHANGED <<sent, cpc, srv, peer>>
               /\ UNCHANGED mmVars
     ELSE IF Len(host.mask) # rows
          THEN \* data[:,mask] raises IndexError
               /\ now = peer[c]
               /\ HandlerStopAndReturn(c)
               /\ UNCHANGED <<sent, hs, peer>>
          ELSE /\ now \in PeerNow(to)
               /\ peer' = [peer EXCEPT ![to] = now]
               /\ IF now = "open"
                  THEN /\ sent' = [sent EXCEPT ![to] = Append(@, hs.data)]
                       /\ hs' = [hs EXCEPT !.idx = @ + 1]
                       /\ turn' = 0
                       /\ UNCHANGED <<cpc, srv>>
                       /\ UNCHANGED mmVars
                  ELSE IF now = "closedOK"
                  THEN \* ConnectionClosedOK: the listener is to be removed
                       /\ hs' = [hs EXCEPT !.idx = @ + 1,
                                           !.to_stop = Append(@, host.id),
                                           !.failed = @ \cup {to}]
                       /\ turn' = 0
                       /\ UNCHANGED <<sent, cpc, srv>>
                       /\ UNCHANGED mmVars
                  ELSE \* any other exception
                       /\ HandlerStopAndReturn(c)
                       /\ UNCHANGED <<sent, hs>>
  /\ UNCHANGED <<inbox, cmm, cmsg, job>>

\* "for i in listen_clients_to_stop: del self._broadcast_connected[i]"
RECURSIVE DelAll(_, _)
DelAll(list, ids) ==
  IF ids = <<>> THEN [ok |-> TRUE, list |-> list]
  ELSE LET i == Head(ids) IN
       IF i >= Len(list) THEN [ok |-> FALSE, list |-> list]
       ELSE DelAll(SubSeq(list, 1, i) \o SubSeq(list, i + 2, Len(list)), Tail(ids))

\* end of the for loop: the failed listeners are removed, then the service
\* waits 0.1 ms for a message of the runner
HandlerRemove(c) ==
  /\ cpc[c] = "fanout"
  /\ CanRun(c)
  /\ hs.idx > Len(srv.broadcast_connected)
  /\ LET res == DelAll(srv.broadcast_connected, hs.to_stop) IN
     IF res.ok
     THEN /\ srv' = [srv EXCEPT !.broadcast_connected = res.list]
          /\ cpc' = [cpc EXCEPT ![c] = "recvcheck"]
          /\ turn' = 0
          /\ UNCHANGED mmVars
     ELSE \* IndexError
          /\ HandlerStopAndRaise(c)
          /\ srv' = [SrvAfterExit(c) EXCEPT !.broadcast_connected = res.list]
  /\ UNCHANGED <<peer, inbox, sent, cmm, cmsg, hs, job>>

\* asyncio.wait_for( websocket.recv(), timeout=0.0001 ); got is what the recv
\* finds: no message ("timeout"), a stop request of the runner, or a closed
\* connection
HandlerRecvCheck(c, got) ==
  /\ cpc[c] = "recvcheck"
  /\ CanRun(c)
  /\ IF got \in {"timeout", "stop"}
     THEN /\ peer[c] = "open"
          /\ IF got = "stop" THEN Stop(srv.mm) ELSE UNCHANGED mmVars
          /\ cpc' = [cpc EXCEPT ![c] = "get"]
          /\ turn' = c
          /\ UNCHANGED <<srv, peer>>
     ELSE \* recv() raises ConnectionClosed
          /\ got \in PeerNow(c) \ {"open"}
          /\ peer' = [peer EXCEPT ![c] = got]
          /\ HandlerStopAndRaise(c)
          /\ srv' = SrvAfterExit(c)
  /\ UNCHANGED <<inbox, sent, cmm, cmsg, hs, job>>

\* after the loop: END is sent to the listeners, then to the runner, and the
\* list is reset; an exception of a send leaves service_run
HandlerEnd(c, now) ==
  /\ cpc[c] = "end"
  /\ CanRun(c)
  /\ IF hs.idx <= Len(srv.broadcast_connected)
     THEN LET host == srv.broadcast_connected[hs.idx]
              to   == host.websocket
          IN
          IF host.id = 0
          THEN /\ now = peer[c]
               /\ hs' = [hs EXCEPT !.idx = @ + 1]
               /\ turn' = c
               /\ UNCHANGED <<sent, cpc, srv, peer>>
          ELSE /\ now \in PeerNow(to)
               /\ peer' = [peer EXCEPT ![to] = now]
               /\ IF now = "open"
                  THEN /\ sent' = [sent EXCEPT ![to] = Append(@, Reply("END"))]
                       /\ hs' = [hs EXCEPT !.idx = @ + 1]
                       /\ turn' = 0
                       /\ UNCHANGED <<cpc, srv>>
                  ELSE /\ cpc' = [cpc EXCEPT ![c] = "ended"]
                       /\ srv' = SrvAfterExit(c)
                       /\ turn' = 0
                       /\ UNCHANGED <<sent, hs>>
     ELSE /\ now \in PeerNow(c)
          /\ peer' = [peer EXCEPT ![c] = now]
          /\ IF now = "open"
             THEN /\ sent' = [sent EXCEPT ![c] = Append(@, Reply("END"))]
                  /\ srv' = [srv EXCEPT !.broadcast_none = TRUE,
                                        !.broadcast_connected = <<>>]
                  /\ cpc' = [cpc EXCEPT ![c] = "wait"]
                  /\ turn' = c
                  /\ UNCHANGED hs
             ELSE /\ cpc' = [cpc EXCEPT ![c] = "ended"]
                  /\ srv' = SrvAfterExit(c)
                  /\ turn' = 0
                  /\ UNCHANGED <<sent, hs>>
  /\ UNCHANGED <<inbox, cmm, cmsg, job>>
  /\ UNCHANGED mmVars

\* ---- service_run: mm.wait() joins the transfer thread ----
ServiceRunWait(c) ==
  /\ cpc[c] = "wait"
  /\ wpc[cmm[c]] = "done"
  /\ IF thread_exception[cmm[c]]
     THEN \* wait() raises, the handler of MuException calls wait() again
          /\ cpc' = [cpc EXCEPT ![c] = "ended"]
          /\ srv' = SrvAfterExit(c)
     ELSE /\ cpc' = [cpc EXCEPT ![c] = "recv"]
          /\ srv' = [srv EXCEPT !.megamicro_sem = 0]
  /\ turn' = 0
  /\ UNCHANGED <<peer, inbox, sent, cmm, cmsg, hs, job>>
  /\ UNCHANGED mmVars

\* ---- the scheduled job (service_scheduler_handler_run), in its own thread ----
JobStart ==
  /\ job.pc = "idle"
  /\ Cardinality(MM \ FreeMM) + Pending < NumMM
  /\ job' = [job EXCEPT !.pc = "acquire"]
  /\ UNCHANGED <<cpc, turn, peer, inbox, sent, srv, cmm, cmsg, hs>>
  /\ UNCHANGED mmVars

JobAcquire ==
  /\ job.pc = "acquire"
  /\ srv.megamicro_sem = 0
  /\ srv' = [srv EXCEPT !.megamicro_sem = JOB]
  /\ job' = [pc |-> "wait", mm |-> NewMM]
  /\ Run(NewMM, JobParams)
  /\ UNCHANGED <<cpc, turn, peer, inbox, sent, cmm, cmsg, hs>>

JobWait ==
  /\ job.pc = "wait"
  /\ wpc[job.mm] = "done"
  /\ srv' = [srv EXCEPT !.megamicro_sem = 0]
  /\ job' = [job EXCEPT !.pc = "done"]
  /\ UNCHANGED <<cpc, turn, peer, inbox, sent, cmm, cmsg, hs>>
  /\ UNCHANGED mmVars

(***************************************************************************)
(* The counter channel of a transfer (processRun, lines 990-1015)          *)
(***************************************************************************)
\* samples per channel of the transfers whose counter channel is modelled
CtrBufferLength == 3
\* the greatest counter value the device delivers
MaxCounter == 6

\* the counter column of a full-length transfer: the words of channel 0,
\* whatever the device delivered there
CounterRows == [1..CtrBufferLength -> 0..MaxCounter]

\* ctrl_buffer_length = data[last sample, channel 0] - data[0] + 1;
\* the check passes when it equals _buffer_length
CounterCheck(row, buffer_length) == row[Len(row)] - row[1] + 1 = buffer_length

\* no frame emitted yet, no misalignment declared, no session run
CtrIdle == [row |-> <<>>, restart_since |-> FALSE, consecutive |-> 0, session |-> 0]

\* the recorder before h5_init
H5Idle == [buffer_index |-> 0, dataset_index |-> 0, current |-> 0, files |-> <<>>,
           max_open |-> 0, handed |-> 0]

RecIdle == ctr = CtrIdle /\ h5 = H5Idle

\* no call of ctrlMems yet
ActIdle == [pc |-> "idle", mems |-> <<>>, ok |-> TRUE, sent |-> <<>>]

\* no completion processed yet
NoCompletion == [st |-> "none", full |-> TRUE, subok |-> TRUE, recording |-> FALSE,
                 pending |-> FALSE, emit |-> FALSE, resub |-> FALSE,
                 stopping |-> FALSE]

\* nothing sent to the device: no command, no H5 file, no flush transfer
UsbIdle == [cmds |-> <<>>, h5file |-> "none", pc |-> "run", flush |-> 0,
            flushed |-> 0, misaligned |-> 0, last |-> NoCompletion]

\* the scheduler with an empty task list (_sched_tasks, _sched_next_id), the
\* clock and the reply to the last request
SchedIdle == [now |-> 0, tasks |-> <<>>, next_id |-> 0, reply |-> "none",
              timers |-> <<>>, command |-> "none", task_id |-> 0, removed |-> {}]

\* a MuH5 object before run(): the files it was given (each of `datasets'
\* datasets), the arguments of run, the attributes of the player, and what
\* it emitted: out is the concatenation of the frames, starts the position
\* at which each file was entered, late whether a frame was emitted from a
\* file entered after stop()
PlayIdle == [pc |-> "idle", files |-> 1, datasets |-> 1,
             buffer_length |-> 1, transfers_count |-> 0, start |-> 0, loop |-> FALSE,
             h5_start_time |-> 0, h5_playing |-> FALSE,
             index |-> 0, pass |-> 1,
             h5_dataset_index |-> 0, h5_dataset_index_ptr |-> 0, loaded |-> 0,
             transfer_index |-> 0,
             out |-> <<>>, starts |-> <<>>, stop_called |-> FALSE, late |-> FALSE]

AuxIdle == act = ActIdle /\ usb = UsbIdle /\ sched = SchedIdle /\ play = PlayIdle

\* the recorder before h5_init: no cache, no file, no frame
WrIdle == [pc |-> "idle", buffer_length |-> 0, file_duration |-> 0, dataset_duration |-> 0,
           dataset_length |-> 0, dataset_number |-> 0, buffer |-> <<>>, buffer_index |-> 0,
           dataset_index |-> 0, files |-> <<>>, frames |-> <<>>]

\* the transfer worker before its first emission
ProdIdle == [pc |-> "test", queue_size |-> 0, transfer_index |-> 0]

\* the remote runner in its receiving loop: the run request was accepted,
\* _recording is True, the server's session records, nothing is in flight
WsIdle == [pc |-> "recv", recording |-> TRUE, stop_called |-> FALSE, stop_sent |-> FALSE,
           inbox |-> <<>>, outbox |-> <<>>, stream_skip |-> FALSE, listeners |-> 0,
           srv_pc |-> "get", srv_recording |-> TRUE, parity |-> 0]

ExtIdle == wr = WrIdle /\ prod = ProdIdle /\ ws = WsIdle

(***************************************************************************)
(* The H5 recorder: h5_init, h5_init_file, h5_write_mems, h5_close         *)
(***************************************************************************)
\* _h5_dataset_number = int( h5_file_duration // h5_dataset_duration )
H5DatasetNumber(p) == p.h5_file_duration \div p.h5_dataset_duration

\* _h5_dataset_length = int( _h5_dataset_duration * _sampling_frequency )
H5DatasetLength(p) == p.h5_dataset_duration * SamplingFrequency(p.sampling_frequency)

\* the file h5_init_file creates: no dataset group, the attributes of the
\* root group
NewH5File(p) == [groups |-> <<>>, dataset_number |-> 0,
                 dataset_duration |-> p.h5_dataset_duration, duration |-> 0,
                 open |-> TRUE]

\* the files that are open
OpenCount(files) == Cardinality({i \in 1..Len(files) : files[i].open})

\* h5_init_file: h5py.File( filename, "w" ) is created, then bound to
\* _h5_current_file. No close() is called on the file that was bound before:
\* it is closed when the runtime collects the File object (gc), if it does
H5InitFile_KeepIndex(h, p, gc) ==
  LET files1 == Append(h.files, NewH5File(p))
      files2 == IF h.current # 0 /\ gc
                THEN [files1 EXCEPT ![h.current].open = FALSE] ELSE files1
  IN [h EXCEPT !.files = files2, !.current = Len(files1),
               !.max_open = Max(@, OpenCount(files1))]
H5InitFile(h, p, gc) ==
  LET files1 == Append(h.files, NewH5File(p))
      files2 == IF h.current # 0 /\ gc
                THEN [files1 EXCEPT ![h.current].open = FALSE] ELSE files1
  IN [h EXCEPT !.files = files2, !.current = Len(files1), !.dataset_index = 0,
               !.max_open = Max(@, OpenCount(files1))]

\* h5_init: the cache is allocated, its cursor set to 0, the first file created
H5Init(h, p, gc) == H5InitFile([h EXCEPT !.buffer_index = 0], p, gc)

\* h5_write_mems: the frame goes to the cache; when it fills the cache the
\* dataset is saved, in a new file when the current one is full, and the tail
\* of the frame starts the next dataset. The copy of the tail raises
\* ValueError when the tail is longer than the cache.
H5WriteMems(h, p, gc) ==
  LET L == p.buffer_length
      D == H5DatasetLength(p)
  IN
  IF h.buffer_index + L < D
  THEN [ok |-> TRUE, h |-> [h EXCEPT !.buffer_index = @ + L, !.handed = @ + L]]
  ELSE LET transf == D - h.buffer_index
           h1 == IF h.dataset_index >= H5DatasetNumber(p) THEN H5InitFile(h, p, gc) ELSE h
           f  == h1.files[h1.current]
           f1 == [f EXCEPT !.groups = Append(@, h1.dataset_index),
                           !.dataset_number = h1.dataset_index + 1,
                           !.duration = (h1.dataset_index + 1) * p.h5_dataset_duration]
           h2 == [h1 EXCEPT !.files[h1.current] = f1, !.dataset_index = @ + 1]
       IN IF L - transf > D
          THEN [ok |-> FALSE, h |-> [h2 EXCEPT !.handed = @ + transf]]
          ELSE [ok |-> TRUE, h |-> [h2 EXCEPT !.buffer_index = L - transf,
                                              !.handed = @ + L]]

\* h5_close: self._h5_current_file.close()
H5Close(h) == [h EXCEPT !.files[h.current].open = FALSE]

(***************************************************************************)
(* Specification of one live session driven through the API                *)
(***************************************************************************)
MMInit ==
  /\ wpc = [m \in MM |-> "none"]
  /\ par = [m \in MM |-> BasePar]
  /\ recording = [m \in MM |-> FALSE]
  /\ restart_request = [m \in MM |-> FALSE]
  /\ restart_attempt = [m \in MM |-> 0]
  /\ transfer_index = [m \in MM |-> 0]
  /\ submitted = [m \in MM |-> <<>>]
  /\ thread_exception = [m \in MM |-> FALSE]
  /\ signal_q = <<>>
  /\ delivered = [m \in MM |-> 0]
  /\ emitted = <<>>
  /\ h5_written = [m \in MM |-> <<>>]
  /\ callback_got = [m \in MM |-> <<>>]
  /\ taken = <<>>
  /\ stop_called = [m \in MM |-> FALSE]
  /\ fatal = [m \in MM |-> "none"]

LiveRun == (\E p \in LiveParams : Run(1, p)) /\ UNCHANGED <<hubVars, srvVars, recVars, auxVars, extVars>>
LiveStop == (Stop(1)) /\ UNCHANGED <<hubVars, srvVars, recVars, auxVars, extVars>>
LiveSetup == (\E o \in {"ok", "nodevice", "ctrlfail"} : TransferSetup(1, o)) /\ UNCHANGED <<hubVars, srvVars, recVars, auxVars, extVars>>
LiveHandleEvents == (HandleEvents(1, TransferStatus, BOOLEAN)) /\ UNCHANGED <<hubVars, srvVars, recVars, auxVars, extVars>>
LiveRecordingLoop == (RecordingLoop(1)) /\ UNCHANGED <<hubVars, srvVars, recVars, auxVars, extVars>>
LiveShutdown == (\E ok \in BOOLEAN : TransferShutdown(1, ok)) /\ UNCHANGED <<hubVars, srvVars, recVars, auxVars, extVars>>
LiveTake == (Take) /\ UNCHANGED <<hubVars, srvVars, recVars, auxVars, extVars>>

InitLive == MMInit /\ HubIdle /\ SrvInit /\ RecIdle /\ AuxIdle /\ ExtIdle

NextLive ==
  \/ LiveRun
  \/ LiveStop
  \/ LiveSetup
  \/ LiveHandleEvents
  \/ LiveRecordingLoop
  \/ LiveShutdown
  \/ LiveTake

SpecLive == InitLive /\ [][NextLive]_vars

(***************************************************************************)
(* Properties of the live session                                          *)
(***************************************************************************)
\* ceil( duration * fs / buffer_length )
CeilTransfers(p) ==
  ((p.duration * SamplingFrequency(p.sampling_frequency)) + p.buffer_length - 1)
     \div p.buffer_length

\* C1: in live mode with block=false and duration=0, a stop() issued at any
\* moment after run() was invoked is never lost: once stop() was called the
\* recording flag is never raised again, so the worker leaves its loop.
C1_StopNeverLost ==
  [][\A m \in MM :
       (wpc[m] # "none" /\ par[m].duration = 0 /\ stop_called[m] /\ stop_called'[m])
          => ~recording'[m]]_vars

\* C4: in a live session with duration > 0 the number of frames emitted
\* downstream never exceeds ceil(duration*fs/buffer_length).
C4_FrameBound ==
  \A m \in MM :
    (wpc[m] # "none" /\ par[m].duration > 0) => delivered[m] <= CeilTransfers(par[m])

\* C5: with queue_size = k > 0, a single producer and no consumer, after n
\* emissions the queue holds exactly the last min(n, k) emitted frames in
\* emission order, its length never exceeds k, and a take returns the oldest
\* retained frame.
C5_QueueState ==
  (wpc[1] # "none" /\ par[1].queue_size > 0 /\ ~par[1].callback) =>
     /\ Len(signal_q) <= par[1].queue_size
     /\ taken = <<>> =>
          signal_q = LastN(emitted, Min(Len(emitted), par[1].queue_size))
C5_FirstTake ==
  (wpc[1] # "none" /\ par[1].queue_size > 0 /\ ~par[1].callback
     /\ taken = <<>> /\ taken' # <<>>) =>
       LET n == Len(emitted)
           k == Min(n, par[1].queue_size)
       IN /\ taken' = <<emitted[n - k + 1]>>
          /\ signal_q' = LastN(emitted, k - 1)
C5_NewestWins == []C5_QueueState /\ [][C5_FirstTake]_vars

\* the scenario of the specification: queue_size 1, frames A, B, C, one take
C5_Witness ==
  /\ par[1].queue_size = 1 /\ ~par[1].callback
  /\ Len(emitted) = 3 /\ taken = <<emitted[3]>>

\* MegaMicro.wait() after the join of the transfer thread: whether it raises
WaitRaises(m) == thread_exception[m]

\* C15: when the transfer thread has terminated after a fatal condition ended
\* the session (a transfer completed with an error status, the retry limit of
\* misalignments was reached, an H5 write failed), wait() raises the error.
C15_FatalErrorRaised ==
  \A m \in MM : (wpc[m] = "done" /\ fatal[m] # "none") => WaitRaises(m)

(***************************************************************************)
(* Specification of the sessions of one object with the counter channel    *)
(***************************************************************************)
\* sessions run on the object
MaxRuns == 2
\* frames the object emits before the model stops looking
MaxCtrFrames == 2

CounterParams ==
  {[BasePar EXCEPT !.counter = TRUE, !.buffer_length = CtrBufferLength, !.queue_size = 1]}

\* a session starts: nothing emitted, no misalignment declared in it
CtrNewSession == [CtrIdle EXCEPT !.session = ctr.session + 1]

CtrRun == (\E p \in CounterParams : Run(1, p)) /\ ctr' = CtrNewSession
          /\ UNCHANGED <<hubVars, srvVars, h5, auxVars, extVars>>
CtrRerun == (\E p \in CounterParams : Rerun(1, p)) /\ ctr.session < MaxRuns
            /\ ctr' = CtrNewSession /\ UNCHANGED <<hubVars, srvVars, h5, auxVars, extVars>>
CtrStop == Stop(1) /\ UNCHANGED <<hubVars, srvVars, recVars, auxVars, extVars>>
CtrSetup == TransferSetup(1, "ok") /\ UNCHANGED <<hubVars, srvVars, recVars, auxVars, extVars>>

\* a transfer completes with all its words: processRun checks its counter
\* column and emits the frame when the check passes
CtrHandleEvents ==
  \E row \in CounterRows :
    /\ delivered[1] < MaxCtrFrames
    /\ ProcessRun(1, "COMPLETED", TRUE, CounterCheck(row, par[1].buffer_length),
                  TRUE, TRUE, TRUE)
    /\ ctr' = IF delivered'[1] # delivered[1]
              THEN [ctr EXCEPT !.row = row, !.restart_since = FALSE, !.consecutive = 0]
              ELSE IF restart_request'[1] /\ ~restart_request[1]
              THEN [ctr EXCEPT !.restart_since = TRUE, !.consecutive = @ + 1]
              ELSE ctr
    /\ UNCHANGED <<hubVars, srvVars, h5, auxVars, extVars>>

CtrRecordingLoop == RecordingLoop(1) /\ UNCHANGED <<hubVars, srvVars, recVars, auxVars, extVars>>
CtrShutdown == TransferShutdown(1, TRUE) /\ UNCHANGED <<hubVars, srvVars, recVars, auxVars, extVars>>

InitCounter == MMInit /\ HubIdle /\ SrvInit /\ RecIdle /\ AuxIdle /\ ExtIdle

NextCounter ==
  \/ CtrRun
  \/ CtrRerun
  \/ CtrStop
  \/ CtrSetup
  \/ CtrHandleEvents
  \/ CtrRecordingLoop
  \/ CtrShutdown

SpecCounter == InitCounter /\ [][NextCounter]_vars

(***************************************************************************)
(* Properties of the counter channel                                       *)
(***************************************************************************)
\* the step of the recording loop that answers a restart request
RestartDecision(m) ==
  /\ wpc[m] = "loop" /\ submitted[m] = <<>>
  /\ restart_request[m] /\ recording[m]
  /\ ~restart_request'[m]

\* C14: the session is aborted exactly at the fifth misalignment declared
\* with no validated frame in between; at the first to the fourth the
\* transfers are submitted again and the recording goes on; the attempt
\* counter is 0 after every frame that passed the counter check.
C14_AbortAtFifthMisalignment ==
  [][\A m \in MM :
       /\ RestartDecision(m) =>
            /\ (wpc'[m] = "closing") <=> (ctr.consecutive = DEFAULT_MAX_RETRY_ATTEMPT)
            /\ ctr.consecutive < DEFAULT_MAX_RETRY_ATTEMPT =>
                  (submitted'[m] # <<>> /\ recording'[m])
       /\ (par[m].counter /\ delivered'[m] # delivered[m]) => restart_attempt'[m] = 0]_vars

IsIncreasing(row) == \A i \in 1..(Len(row) - 1) : row[i] < row[i + 1]

\* C16: when two frames are emitted one after the other with no restart
\* declared between them, and the counter of the device only increased, the
\* first counter value of the later frame is the last of the earlier plus 1.
C16_FramesContiguous ==
  [][(/\ delivered'[1] # delivered[1]
      /\ ctr.row # <<>> /\ ~ctr.restart_since
      /\ IsIncreasing(ctr.row) /\ IsIncreasing(ctr'.row)
      /\ ctr'.row[1] > ctr.row[Len(ctr.row)])
     => ctr'.row[1] = ctr.row[Len(ctr.row)] + 1]_vars

\* C17: the counter channel of every emitted frame rises by 1 per sample.
C17_CounterRisesByOne ==
  \A i \in 1..Len(ctr.row) : ctr.row[i] - ctr.row[1] = i - 1

(***************************************************************************)
(* Specification of one recording session: the object writes its frames to *)
(* H5 files                                                                *)
(***************************************************************************)
RecorderParams ==
  {[BasePar EXCEPT !.h5_recording = TRUE, !.queue_size = 1, !.buffer_length = bl,
                   !.h5_dataset_duration = dd, !.h5_file_duration = fd] :
      bl \in {50000, 30000}, dd \in {1, 2}, fd \in {2, 3}}

RecRun == (\E p \in RecorderParams : Run(1, p)) /\ UNCHANGED <<hubVars, srvVars, recVars, auxVars, extVars>>
RecStop == Stop(1) /\ UNCHANGED <<hubVars, srvVars, recVars, auxVars, extVars>>

\* the device is set up and h5_init creates the first file
RecSetup ==
  /\ TransferSetup(1, "ok")
  /\ \E gc \in BOOLEAN : h5' = H5Init(h5, par[1], gc)
  /\ UNCHANGED <<hubVars, srvVars, ctr, auxVars, extVars>>

\* a transfer completes: processRun hands the frame to h5_write_mems
RecHandleEvents ==
  \E gc \in BOOLEAN :
    LET w == H5WriteMems(h5, par[1], gc) IN
    /\ ProcessRun(1, "COMPLETED", TRUE, TRUE, w.ok, TRUE, TRUE)
    /\ h5' = IF delivered'[1] # delivered[1] THEN w.h ELSE h5
    /\ UNCHANGED <<hubVars, srvVars, ctr, auxVars, extVars>>

RecRecordingLoop == RecordingLoop(1) /\ UNCHANGED <<hubVars, srvVars, recVars, auxVars, extVars>>

\* after the loop: h5_close, then the device is shut down
RecShutdown ==
  /\ TransferShutdown(1, TRUE)
  /\ h5' = H5Close(h5)
  /\ UNCHANGED <<hubVars, srvVars, ctr, auxVars, extVars>>

InitRecorder == MMInit /\ HubIdle /\ SrvInit /\ RecIdle /\ AuxIdle /\ ExtIdle

NextRecorder ==
  \/ RecRun
  \/ RecStop
  \/ RecSetup
  \/ RecHandleEvents
  \/ RecRecordingLoop
  \/ RecShutdown

SpecRecorder == InitRecorder /\ [][NextRecorder]_vars

(***************************************************************************)
(* Properties of the H5 recorder                                           *)
(***************************************************************************)
\* C18: in every file the attribute dataset_number is the number of dataset
\* groups, the groups are named 0 .. dataset_number-1 in this order, and the
\* attribute duration is dataset_number * dataset_duration.
C18_FileAttributes ==
  \A i \in 1..Len(h5.files) :
    LET f == h5.files[i] IN
    /\ f.dataset_number = Len(f.groups)
    /\ \A k \in 1..Len(f.groups) : f.groups[k] = k - 1
    /\ f.duration = f.dataset_number * f.dataset_duration

\* the file roll of the specification: dataset_duration 1, file_duration 3,
\* a first file of 3 datasets and a second file that holds 1
C18_Witness ==
  /\ par[1].h5_dataset_duration = 1 /\ par[1].h5_file_duration = 3
  /\ Len(h5.files) = 2
  /\ h5.files[1].dataset_number = 3
  /\ h5.files[2].dataset_number = 1

\* the samples of the datasets of all files
RECURSIVE DatasetsCount(_)
DatasetsCount(files) ==
  IF files = <<>> THEN 0 ELSE Len(Head(files).groups) + DatasetsCount(Tail(files))
Persisted == DatasetsCount(h5.files) * H5DatasetLength(par[1])

\* C19: once the session has ended, every sample that was handed to the
\* recorder is in a dataset of a file: the samples of the cache were
\* persisted at close.
C19_CacheFlushedAtClose ==
  (wpc[1] = "done" /\ par[1].h5_recording) => Persisted = h5.handed

\* C20: at every moment at most one file of the recorder is open, and none
\* once the session has ended.
C20_OneFileOpen ==
  /\ h5.max_open <= 1
  /\ OpenCount(h5.files) <= 1
  /\ wpc[1] = "done" => OpenCount(h5.files) = 0

(***************************************************************************)
(* Specification of the hub functions on drawn inputs                      *)
(***************************************************************************)
MMIdle == MMInit

MaskListen == HubListen /\ UNCHANGED <<mmVars, srvVars, recVars, auxVars, extVars>>
MaskSendRunner == HubSendRunner /\ UNCHANGED <<mmVars, srvVars, recVars, auxVars, extVars>>
MaskSendListener == HubSendListener /\ UNCHANGED <<mmVars, srvVars, recVars, auxVars, extVars>>
MaskClientDecode == HubClientDecode /\ UNCHANGED <<mmVars, srvVars, recVars, auxVars, extVars>>

InitMask == HubInit /\ MMIdle /\ SrvInit /\ RecIdle /\ AuxIdle /\ ExtIdle

NextMask ==
  \/ MaskListen
  \/ MaskSendRunner
  \/ MaskSendListener
  \/ MaskClientDecode

SpecMask == InitMask /\ [][NextMask]_vars

(***************************************************************************)
(* The steps of the server and of the transfer threads of its sessions     *)
(***************************************************************************)
\* the device of the server completes MaxSrvFrames transfers, then its
\* transfers fail with an error
MaxSrvFrames == 3
ServerStatus == IF Len(emitted) < MaxSrvFrames THEN {"COMPLETED"} ELSE {"ERROR"}

\* the states a connection may be found in, the outcomes of a recv
PeerStates == {"open", "closedOK", "closedErr"}
RecvOutcomes == {"timeout", "stop", "closedOK", "closedErr"}

SrvHandlerRecv == \E c \in Conn, now \in PeerStates : HandlerRecv(c, now) /\ UNCHANGED <<hubVars, recVars, auxVars, extVars>>
SrvListenAppend == \E c \in Conn, now \in PeerStates : ServiceListenAppend(c, now) /\ UNCHANGED <<hubVars, recVars, auxVars, extVars>>
SrvRunAcquire == \E c \in Conn : ServiceRunAcquire(c) /\ UNCHANGED <<hubVars, recVars, auxVars, extVars>>
SrvHandlerStart == \E c \in Conn : HandlerServiceRunStart(c) /\ UNCHANGED <<hubVars, recVars, auxVars, extVars>>
SrvHandlerGet == \E c \in Conn : HandlerGet(c) /\ UNCHANGED <<hubVars, recVars, auxVars, extVars>>
SrvHandlerGetEmpty == \E c \in Conn : HandlerGetEmpty(c) /\ UNCHANGED <<hubVars, recVars, auxVars, extVars>>
SrvHandlerFanout == \E c \in Conn, now \in PeerStates : HandlerFanout(c, now) /\ UNCHANGED <<hubVars, recVars, auxVars, extVars>>
SrvHandlerRemove == \E c \in Conn : HandlerRemove(c) /\ UNCHANGED <<hubVars, recVars, auxVars, extVars>>
SrvHandlerRecvCheck == \E c \in Conn, got \in RecvOutcomes : HandlerRecvCheck(c, got) /\ UNCHANGED <<hubVars, recVars, auxVars, extVars>>
SrvHandlerEnd == \E c \in Conn, now \in PeerStates : HandlerEnd(c, now) /\ UNCHANGED <<hubVars, recVars, auxVars, extVars>>
SrvRunWait == \E c \in Conn : ServiceRunWait(c) /\ UNCHANGED <<hubVars, recVars, auxVars, extVars>>
SrvJobStart == JobStart /\ UNCHANGED <<hubVars, recVars, auxVars, extVars>>
SrvJobAcquire == JobAcquire /\ UNCHANGED <<hubVars, recVars, auxVars, extVars>>
SrvJobWait == JobWait /\ UNCHANGED <<hubVars, recVars, auxVars, extVars>>
SrvTransferSetup ==
  \E m \in MM : TransferSetup(m, "ok") /\ UNCHANGED <<hubVars, srvVars, recVars, auxVars, extVars>>
SrvHandleEvents ==
  \E m \in MM : HandleEvents(m, ServerStatus, {TRUE}) /\ UNCHANGED <<hubVars, srvVars, recVars, auxVars, extVars>>
SrvRecordingLoop == \E m \in MM : RecordingLoop(m) /\ UNCHANGED <<hubVars, srvVars, recVars, auxVars, extVars>>
SrvShutdown == \E m \in MM : TransferShutdown(m, TRUE) /\ UNCHANGED <<hubVars, srvVars, recVars, auxVars, extVars>>

InitServer == MMInit /\ HubIdle /\ SrvInit /\ RecIdle /\ AuxIdle /\ ExtIdle

\* one session of the server (send/receive loop and transfer thread)
NextSession ==
  \/ SrvHandlerRecv
  \/ SrvRunAcquire
  \/ SrvHandlerStart
  \/ SrvHandlerGet
  \/ SrvHandlerGetEmpty
  \/ SrvHandlerFanout
  \/ SrvHandlerRemove
  \/ SrvHandlerRecvCheck
  \/ SrvHandlerEnd
  \/ SrvRunWait
  \/ SrvTransferSetup
  \/ SrvHandleEvents
  \/ SrvRecordingLoop
  \/ SrvShutdown

(***************************************************************************)
(* Specification of the sessions of the server: every client asks for a    *)
(* run, a job is scheduled                                                 *)
(***************************************************************************)
\* the clients that ask for a run, without stream_skip
NumRunners == 2
SrvConnect ==
  \E c \in 1..NumRunners : \E req \in {r \in RunRequests : ~r.stream_skip} :
     ClientConnect(c, req) /\ UNCHANGED <<hubVars, recVars, auxVars, extVars>>

NextServer ==
  \/ SrvConnect
  \/ SrvJobStart
  \/ SrvJobAcquire
  \/ SrvJobWait
  \/ NextSession

SpecServer == InitServer /\ [][NextServer]_vars

(***************************************************************************)
(* Specification of the broadcast of one session: the first client is the  *)
(* runner, the others are listeners                                        *)
(***************************************************************************)
FirstConn == CHOOSE c \in Conn : \A d \in Conn : c <= d
BroadcastRequests(c) == IF c = FirstConn THEN RunRequests ELSE SubscribeRequests

BcConnect ==
  \E c \in Conn : \E req \in BroadcastRequests(c) : ClientConnect(c, req) /\ UNCHANGED <<hubVars, recVars, auxVars, extVars>>

NextBroadcast ==
  \/ BcConnect
  \/ SrvListenAppend
  \/ NextSession

SpecBroadcast == InitServer /\ [][NextBroadcast]_vars

(***************************************************************************)
(* Properties of the sessions of the server                                *)
(***************************************************************************)
\* the objects whose transfer thread is started and not terminated
AliveWorkers == {m \in MM : wpc[m] \in {"setup", "loop", "closing"}}

\* C2: at most one acquisition session is live at any moment: the transfer
\* thread of a session is started only once the thread of the previous
\* session has terminated, however the previous service ended.
C2_OneLiveSession == Cardinality(AliveWorkers) <= 1

\* C3: a run request that waits for the semaphore does not keep the session
\* that holds it from running: that session goes on, ends and releases the
\* semaphore, and the waiting request is then served.
C3_WaitingRunServed ==
  \A c \in Conn : cpc[c] = "run_blocked" =>
     \A h \in Conn : srv.megamicro_sem = h => CanRun(h)

(***************************************************************************)
(* Properties of the broadcast                                             *)
(***************************************************************************)
\* the frames among the messages sent on a connection
FramesOf(log) == FilterSeq(log, {log[i] : i \in {j \in 1..Len(log) : log[j][1] = "frame"}})

InOrderOnce(log) == IsSubSeq(log, emitted) /\ NoDuplicate(log)

\* C6: the frames taken from the queue, the frames written to the H5 file and
\* the frames sent to each subscriber are subsequences of the emitted frames,
\* in the order of emission, and no frame reaches the same sink twice.
C6_EmissionOrder ==
  /\ InOrderOnce(taken)
  /\ \A m \in MM : InOrderOnce(h5_written[m])
  /\ \A c \in Conn : InOrderOnce(FramesOf(sent[c]))

\* three frames were taken from the queue and written to the H5 file, a
\* listener got two of them and the runner fewer frames than the listener
C6_Witness ==
  /\ Len(taken) = 3
  /\ \E m \in MM : Len(h5_written[m]) = 3
  /\ \E c \in Conn \ {FirstConn} :
        /\ Len(FramesOf(sent[c])) = 2
        /\ Len(FramesOf(sent[FirstConn])) = 1

\* the step of handler_service_run that serves the host at position hs.idx
FanoutStepOf(c) ==
  /\ cpc[c] = "fanout"
  /\ hs.idx <= Len(srv.broadcast_connected)
  /\ hs'.idx = hs.idx + 1 \/ cpc'[c] # "fanout"

\* C9: a send to a listener that fails, whatever the failure, does not stop
\* the session: stop() is not called and the round goes on with the next
\* host.
C9_ListenerFailureIsLocal ==
  [][\A c \in Conn :
       LET host == srv.broadcast_connected[hs.idx] IN
       (/\ FanoutStepOf(c)
        /\ host.id # 0
        /\ Len(host.mask) = Len(RowLabels(srv.parameters))
        /\ peer'[host.websocket] # "open")
       => /\ cpc'[c] = "fanout"
          /\ stop_called'[hs.mm] = stop_called[hs.mm]]_vars

\* the websockets of the subscriber list
Subscribers(list) == [i \in 1..Len(list) |-> list[i].websocket]

\* C10: at the end of a round in which sends to listeners failed with a
\* closed connection, the subscriber list is the list of the hosts whose
\* send did not fail, the runner included.
C10_FailedListenersRemoved ==
  [][\A c \in Conn :
       (/\ cpc[c] = "fanout"
        /\ hs.idx > Len(srv.broadcast_connected)
        /\ cpc'[c] # "fanout"
        /\ hs.failed # {})
       => /\ ~srv'.broadcast_none
          /\ Subscribers(srv'.broadcast_connected)
               = FilterSeq(Subscribers(srv.broadcast_connected), Conn \ hs.failed)]_vars

\* the positions of handler_service_run
HandlerPositions == {"get", "fanout", "recvcheck", "end"}

\* the listeners of the subscriber list
Listeners(list) == {list[i].websocket : i \in {j \in 1..Len(list) : list[j].id # 0}}

\* C11: on every path by which handler_service_run ends, every listener of
\* the subscriber list whose connection was not found closed has been sent
\* the END message.
C11_ListenersGetEnd ==
  [][\A c \in Conn :
       (cpc[c] \in HandlerPositions /\ cpc'[c] \notin HandlerPositions)
       => \A l \in Listeners(srv.broadcast_connected) :
             peer'[l] = "open" => \E i \in 1..Len(sent'[l]) : sent'[l][i] = Reply("END")]_vars

\* C12: at the step of the round that serves the runner, with the connection
\* of the runner open, the frame is sent to the runner if and only if
\* stream_skip is off or the list holds no listener.
C12_RunnerSkipped ==
  [][\A c \in Conn :
       (/\ FanoutStepOf(c)
        /\ srv.broadcast_connected[hs.idx].id = 0
        /\ peer'[c] = "open")
       => ((sent'[c] = Append(sent[c], hs.data))
             <=> (~hs.stream_skip \/ Listeners(srv.broadcast_connected) = {}))
          /\ (sent'[c] = sent[c]
                \/ ~(hs.stream_skip /\ Listeners(srv.broadcast_connected) # {}))]_vars

\* the runner of a session with stream_skip got the first frame, a listener
\* came, and the runner was skipped for the second frame
C12_Witness ==
  /\ cpc[FirstConn] = "fanout"
  /\ hs.stream_skip /\ hs.idx = 2
  /\ Listeners(srv.broadcast_connected) # {}
  /\ hs.data = Frame(hs.mm, 2)
  /\ FramesOf(sent[FirstConn]) = <<Frame(hs.mm, 1)>>

\* a channel of the request that the session does not provide
Unavailable(sess, req) ==
  \/ \E i \in 1..Len(req.mems) : \A j \in 1..Len(sess.mems) : sess.mems[j] # req.mems[i]
  \/ \E i \in 1..Len(req.analogs) :
        \A j \in 1..Len(sess.analogs) : sess.analogs[j] # req.analogs[i]
  \/ req.counter /\ ~(sess.counter /\ ~sess.counter_skip)
  \/ req.status /\ ~sess.status

\* no send/receive loop of a run session is running
NoActiveSession == \A d \in Conn : cpc[d] \notin HandlerPositions

\* C13: a listen request that names a channel the session does not provide,
\* or that arrives when no run session is active, gets the reply NOT OK; the
\* server, its subscriber list and the session are left as they are.
C13_BadListenRejected ==
  [][\A c \in Conn :
       (/\ cpc[c] = "recv" /\ inbox[c] # <<>>
        /\ inbox'[c] = Tail(inbox[c])
        /\ Head(inbox[c]).request = "listen"
        /\ peer'[c] = "open"
        /\ (NoActiveSession \/ Unavailable(srv.parameters, Head(inbox[c]).listen)))
       => /\ sent'[c] = Append(sent[c], Reply("NOT OK"))
          /\ cpc'[c] = "recv"
          /\ UNCHANGED <<srv, hs, recording, stop_called>>]_vars

(***************************************************************************)
(* Properties of the hub functions                                         *)
(***************************************************************************)
\* the channels a listen request asks for
Requested(req) ==
  {<<"mem", req.mems[i]>> : i \in 1..Len(req.mems)}
  \cup {<<"analog", req.analogs[i]>> : i \in 1..Len(req.analogs)}
  \cup (IF req.counter THEN {<<"counter", 0>>} ELSE {})
  \cup (IF req.status THEN {<<"status", 0>>} ELSE {})

\* frame[mask, :], the rows of the frame a mask selects
SelectRows(frame, mask) ==
  LET pos == TruePositions(mask, 1)
  IN [k \in 1..Len(pos) |-> frame[pos[k]]]

\* word number k (from 0) of a message
WordAt(bytes, k) == BytesWord(SubSeq(bytes, 4 * k + 1, 4 * k + 4))

\* the rows of the frame that the message of mk_out carries
SentRows ==
  IF mk_to = "runner" THEN mk_frame ELSE SelectRows(mk_frame, mk_mask.mask)

\* C7: for every accepted subscription the stored mask has one entry per row
\* of the emitted frame and selects exactly the rows of the requested
\* channels, so that the listener is sent exactly these rows of every frame.
C7_ListenerGetsRequestedRows ==
  (mk_pc \in {"listened", "sent"} /\ mk_mask.ok) =>
     /\ Len(mk_mask.mask) = Len(RowLabels(mk_sess))
     /\ {RowLabels(mk_sess)[i] : i \in {j \in 1..Len(mk_mask.mask) : mk_mask.mask[j]}}
           = Requested(mk_req)
     /\ mk_to # "IndexError"

\* C8 as stated: the message lists the words channel by channel, word number
\* c*S + s is the sample s of channel c.
C8_ChannelMajor ==
  (mk_pc \in {"sent", "decoded"} /\ mk_to \in {"runner", "listener"}) =>
     LET C == Len(SentRows)
         S == HubBufferLength
     IN /\ Len(mk_out) = 4 * C * S
        /\ \A c \in 0..(C - 1), k \in 0..(S - 1) :
              WordAt(mk_out, c * S + k) = SentRows[c + 1][k + 1]

\* C8 amended: the message lists the words sample by sample (row-major over
\* samples x channels), word number s*C + c is the sample s of channel c.
C8_SampleMajor ==
  (mk_pc \in {"sent", "decoded"} /\ mk_to \in {"runner", "listener"}) =>
     LET C == Len(SentRows)
         S == HubBufferLength
     IN /\ Len(mk_out) = 4 * C * S
        /\ \A c \in 0..(C - 1), k \in 0..(S - 1) :
              WordAt(mk_out, k * C + c) = SentRows[c + 1][k + 1]

\* a listener was sent two rows of a frame of negative words
C8_Witness ==
  /\ mk_pc = "sent" /\ mk_to = "listener"
  /\ CountTrue(mk_mask.mask) = 2
  /\ mk_frame[1][1] < 0

\* the runner's client rebuilds the frame that was in the queue
HubRoundTrip == mk_pc = "decoded" => mk_decoded = mk_frame


(***************************************************************************)
(* Specification of a server constructed with a small maxconnect: the same *)
(* clients and sessions as SpecServer                                      *)
(***************************************************************************)
MaxConnects == {1, 2}

InitConnect ==
  /\ MMInit /\ HubIdle /\ RecIdle /\ AuxIdle /\ ExtIdle
  /\ \E n \in MaxConnects : SrvInitWith(n)

SpecConnect == InitConnect /\ [][NextServer]_vars

\* C26: the number of clients registered as connected never exceeds
\* maxconnect, and a client that connects when maxconnect clients are
\* registered is refused with an error reply and is not registered
C26_ConnectionsBounded ==
  /\ [](Cardinality(srv.connected) <= srv.maxconnect)
  /\ [][\A c \in Conn :
          (/\ peer[c] = "none" /\ peer'[c] = "open"
           /\ Cardinality(srv.connected) >= srv.maxconnect)
          => /\ srv'.connected = srv.connected
             /\ sent'[c] = Append(sent[c], Reply("NOT OK"))]_vars


(***************************************************************************)
(* ctrlMems: the activation commands of the microphones                    *)
(***************************************************************************)
MU_BEAM_MEMS_NUMBER == 8

MU32_BEAMS_NUMBER == 4

MaxMems == 3

\* the microphone indices of a Mu32, and the first index out of range
Mics == 0..(MU32_BEAMS_NUMBER * MU_BEAM_MEMS_NUMBER)

\* bit k of the integer n
Bit(n, k) == (n \div 2^k) % 2 = 1

\* map_mems after the loop over mems[1..n]: each mic ADDS 1 << mic_index to
\* the entry of its beam
RECURSIVE MapMems(_, _, _)
MapMems(mems, n, beams_number) ==
  IF n = 0 THEN [beam \in 0..(beams_number - 1) |-> 0]
  ELSE LET mic == mems[n]
           mic_index == mic % MU_BEAM_MEMS_NUMBER
           beam_index == mic \div MU_BEAM_MEMS_NUMBER
       IN [MapMems(mems, n - 1, beams_number)
             EXCEPT ![beam_index] = @ + 2^mic_index]

\* the loop over the beams from beam on: one ctrlWrite per beam whose entry
\* is not 0; buf[3] is one byte, storing an entry above 255 raises and ends
\* the loop
RECURSIVE SendBeams(_, _, _)
SendBeams(map_mems, beam, beams_number) ==
  IF beam >= beams_number THEN [ok |-> TRUE, sent |-> <<>>]
  ELSE IF map_mems[beam] = 0 THEN SendBeams(map_mems, beam + 1, beams_number)
  ELSE IF map_mems[beam] > 255 THEN [ok |-> FALSE, sent |-> <<>>]
  ELSE LET rest == SendBeams(map_mems, beam + 1, beams_number)
       IN [ok |-> rest.ok, sent |-> <<<<beam, map_mems[beam]>>>> \o rest.sent]

\* ctrlMems( handle, 'activate', beams_number, mems ) for a list mems
ctrlMems(mems, beams_number) ==
  IF \E i \in 1..Len(mems) : mems[i] \div MU_BEAM_MEMS_NUMBER >= beams_number
  THEN [ok |-> FALSE, sent |-> <<>>]
  ELSE SendBeams(MapMems(mems, Len(mems), beams_number), 0, beams_number)

\* Mu32.ctrlMems
Mu32_ctrlMems(mems) == ctrlMems(mems, MU32_BEAMS_NUMBER)

MemsLists == UNION {[1..n -> Mics] : n \in 0..MaxMems}

MemsActivate ==
  /\ act.pc = "idle"
  /\ LET r == Mu32_ctrlMems(act.mems)
     IN act' = [act EXCEPT !.pc = "done", !.ok = r.ok, !.sent = r.sent]
  /\ UNCHANGED <<mmVars, hubVars, srvVars, recVars, usb, sched, play, extVars>>

InitMems ==
  /\ MMInit /\ HubIdle /\ SrvInit /\ RecIdle /\ ExtIdle
  /\ usb = UsbIdle /\ sched = SchedIdle /\ play = PlayIdle
  /\ \E mems \in MemsLists : act = [ActIdle EXCEPT !.mems = mems]

NextMems == MemsActivate

SpecMems == InitMems /\ [][NextMems]_vars

\* the beams that contain a microphone of mems
BeamsOf(mems) == {mems[i] \div MU_BEAM_MEMS_NUMBER : i \in 1..Len(mems)}

\* C27: activate sends exactly one command per beam that contains a
\* requested microphone, bit k of the bitmap of beam b is set if and only if
\* microphone 8*b + k occurs in mems; with an index >= 8 * beams_number the
\* operation fails and no command is sent
C27_ActivationBitmaps ==
  act.pc = "done" =>
    IF \E i \in 1..Len(act.mems) :
         act.mems[i] >= MU_BEAM_MEMS_NUMBER * MU32_BEAMS_NUMBER
    THEN ~act.ok /\ act.sent = <<>>
    ELSE /\ act.ok
         /\ \A b \in BeamsOf(act.mems) :
              Cardinality({j \in 1..Len(act.sent) : act.sent[j][1] = b}) = 1
         /\ \A j \in 1..Len(act.sent) :
              /\ act.sent[j][1] \in BeamsOf(act.mems)
              /\ \A k \in 0..(MU_BEAM_MEMS_NUMBER - 1) :
                   Bit(act.sent[j][2], k) <=>
                     \E i \in 1..Len(act.mems) :
                       act.mems[i] = MU_BEAM_MEMS_NUMBER * act.sent[j][1] + k


(***************************************************************************)
(* The scheduler: service_scheduler (command 'run'), its task list and the *)
(* threads that execute the tasks                                          *)
(***************************************************************************)
SRV_SCHEDULER_LIST_MAXSIZE == 100

MaxTime == 3

MaxTasks == 3

\* _sched_cleanup: pops the tasks whose status is 'complete' while it
\* enumerates the list (the element after a popped one is skipped)
RECURSIVE SchedCleanupFrom(_, _)
SchedCleanupFrom(tasks, index) ==
  IF index > Len(tasks) THEN tasks
  ELSE IF tasks[index].status = "complete"
       THEN SchedCleanupFrom(SubSeq(tasks, 1, index - 1)
                               \o SubSeq(tasks, index + 1, Len(tasks)), index + 1)
       ELSE SchedCleanupFrom(tasks, index + 1)

sched_cleanup(tasks) == SchedCleanupFrom(tasks, 1)

\* the test of one task in _sched_check_conflict: start, or stop, lies
\* strictly inside the interval of the task
TaskConflict(task, start, stop) ==
  \/ start - task.start > 0 /\ task.stop - start > 0
  \/ stop - task.start > 0 /\ task.stop - stop > 0

\* the tasks _sched_check_conflict looks at
ConflictChecked(task) == task.status = "pending" \/ task.status # "active"

sched_check_conflict(tasks, start, stop) ==
  \E i \in 1..Len(tasks) :
    ConflictChecked(tasks[i]) /\ TaskConflict(tasks[i], start, stop)

\* service_scheduler for a request {command: 'run', sched_start_time: start,
\* sched_stop_time: stop}
ServiceScheduler(start, stop) ==
  LET tasks == IF Len(sched.tasks) > SRV_SCHEDULER_LIST_MAXSIZE
               THEN sched_cleanup(sched.tasks) ELSE sched.tasks
      now == sched.now
      late == start < now
      start1 == IF late THEN now ELSE start
      stop1 == IF late THEN stop - start + now ELSE stop
      s0 == [sched EXCEPT !.tasks = tasks, !.command = "run", !.task_id = sched.next_id]
  IN /\ sched.next_id < MaxTasks
     /\ IF stop <= start
        THEN sched' = [s0 EXCEPT !.reply = "NOT OK"]
        ELSE IF sched_check_conflict(tasks, start1, stop1)
        THEN sched' = [s0 EXCEPT !.reply = "NOT OK"]
        ELSE sched' = [s0 EXCEPT
                         !.timers = Append(@, [task_id |-> sched.next_id,
                                               start |-> start1, state |-> "armed"]),
                         !.tasks = Append(tasks, [task_id |-> sched.next_id,
                                                  start |-> start1, stop |-> stop1,
                                                  status |-> "pending"]),
                         !.next_id = @ + 1,
                         !.reply = "OK"]

\* _sched_set_status: the status of the task task_id, when it is in the list
sched_set_status(tasks, task_id, status) ==
  [i \in 1..Len(tasks) |-> IF tasks[i].task_id = task_id
                           THEN [tasks[i] EXCEPT !.status = status] ELSE tasks[i]]

\* _sched_get_status: the status of the task, or Python's False
sched_get_status(tasks, task_id) ==
  IF \E i \in 1..Len(tasks) : tasks[i].task_id = task_id
  THEN tasks[CHOOSE i \in 1..Len(tasks) : tasks[i].task_id = task_id].status
  ELSE "False"

\* _sched_job_remove: the list without the task task_id
sched_job_remove(tasks, task_id) ==
  FilterSeq(tasks, {tasks[i] : i \in {j \in 1..Len(tasks) : tasks[j].task_id # task_id}})

\* 'status := self._sched_get_status( task_id ) == False': the name is bound
\* to the value of the comparison, Python's True or False
RmjobStatus(tasks, task_id) ==
  IF sched_get_status(tasks, task_id) = "False" THEN "True" ELSE "False"

\* service_scheduler for a request {command: 'rmjob', task_id: task_id}
ServiceRmjob(task_id) ==
  LET status == RmjobStatus(sched.tasks, task_id)
      s0 == [sched EXCEPT !.command = "rmjob", !.task_id = task_id]
  IN IF status = "True"
     THEN sched' = [s0 EXCEPT !.reply = "job not found"]
     ELSE IF status = "active"
     THEN sched' = [s0 EXCEPT !.reply = "job is active"]
     ELSE sched' = [s0 EXCEPT
                      !.tasks = sched_job_remove(@, task_id),
                      !.removed = IF sched_get_status(sched.tasks, task_id) = "pending"
                                  THEN @ \cup {task_id} ELSE @,
                      !.reply = "OK"]

\* the request and the reply of a step that serves no request
NoSchedRequest(s) == [s EXCEPT !.command = "none", !.task_id = 0, !.reply = "none"]

\* the Timer of a task fires at its start time: service_scheduler_handler
\* sets the task active and service_scheduler_handler_run starts the
\* acquisition. Nothing cancels the Timer of a task
SchedulerHandlerStart(i) ==
  /\ i \in 1..Len(sched.timers)
  /\ sched.timers[i].state = "armed"
  /\ sched.now >= sched.timers[i].start
  /\ sched' = NoSchedRequest([sched EXCEPT
                 !.timers[i].state = "running",
                 !.tasks = sched_set_status(@, sched.timers[i].task_id, "active")])

\* the run of the task ends: completed, or error
SchedulerHandlerEnd(i, ok) ==
  /\ i \in 1..Len(sched.timers)
  /\ sched.timers[i].state = "running"
  /\ sched' = NoSchedRequest([sched EXCEPT
                 !.timers[i].state = "done",
                 !.tasks = sched_set_status(@, sched.timers[i].task_id,
                                            IF ok THEN "completed" ELSE "error")])

\* time passes
SchedTick ==
  /\ sched.now < MaxTime
  /\ sched' = NoSchedRequest([sched EXCEPT !.now = @ + 1])

SchedOthers == UNCHANGED <<mmVars, hubVars, srvVars, recVars, act, usb, play, extVars>>

SchedRequest ==
  \E start, stop \in 0..MaxTime : ServiceScheduler(start, stop) /\ SchedOthers
SchedStart == \E i \in 1..MaxTasks : SchedulerHandlerStart(i) /\ SchedOthers
SchedEnd ==
  \E i \in 1..MaxTasks, ok \in BOOLEAN : SchedulerHandlerEnd(i, ok) /\ SchedOthers
SchedClock == SchedTick /\ SchedOthers
SchedRmjob == \E task_id \in 0..(MaxTasks - 1) : ServiceRmjob(task_id) /\ SchedOthers

InitSched == MMInit /\ HubIdle /\ SrvInit /\ RecIdle /\ AuxIdle /\ ExtIdle

NextSched == SchedRequest \/ SchedStart \/ SchedEnd \/ SchedClock \/ SchedRmjob

SpecSched == InitSched /\ [][NextSched]_vars

\* two intervals share more than an end point
Overlap(a, b) == a.start < b.stop /\ b.start < a.stop

Scheduled(task) == task.status \in {"pending", "active"}

\* C24: no two tasks that are pending or active in the task list have
\* overlapping [start, stop] intervals (a request that overlaps such a task
\* partially, contains it, is contained in it or is identical to it is
\* refused and not added)
C24_NoOverlappingTasks ==
  \A i, j \in 1..Len(sched.tasks) :
    (i # j /\ Scheduled(sched.tasks[i]) /\ Scheduled(sched.tasks[j]))
      => ~Overlap(sched.tasks[i], sched.tasks[j])


(***************************************************************************)
(* The device of one live session: the control commands it is sent, the    *)
(* H5 file, the flush transfers, and the steps of the shutdown             *)
(***************************************************************************)
MaxDevFrames == 2

MaxMisaligned == 5

DeviceParams ==
  {[BasePar EXCEPT !.duration = d, !.counter = c, !.start_trig = st,
                   !.h5_recording = h] :
     d \in {0, 1}, c \in BOOLEAN, st \in BOOLEAN, h \in BOOLEAN}

\* ctrlResetMu32, ctrlClockdiv, ctrlTixels, ctrlDatatype, ctrlMems, ctrlCSA
ConfigCommands == <<"resetmu32", "clockdiv", "tixels", "datatype", "mems", "csa">>

StartCommand(p) == IF p.start_trig THEN "starttrig" ELSE "start"

SetupCommands(p) == Append(ConfigCommands, StartCommand(p))

\* the device setup up to the allocation of the transfers, when the submit
\* of transfer n+1 raises: the exception leaves the 'try' of transfer_loop
TransferSetupRaise(m, n) ==
  /\ wpc[m] = "setup"
  /\ n < par[m].buffers_number
  /\ wpc' = [wpc EXCEPT ![m] = "done"]
  /\ submitted' = [submitted EXCEPT ![m] = [i \in 1..n |-> i]]
  /\ thread_exception' = [thread_exception EXCEPT ![m] = TRUE]
  /\ UNCHANGED <<par, recording, restart_request, restart_attempt, transfer_index,
                 signal_q, delivered, emitted, h5_written, callback_got, taken,
                 stop_called, fatal>>

\* the restart branch of the recording loop when ctrlResetFx3 raises
\* (fx3ok false) or the submit of transfer n+1 raises: the exception leaves
\* the 'try' of transfer_loop
RecordingLoopRaise(m, fx3ok, n) ==
  /\ wpc[m] = "loop"
  /\ submitted[m] = <<>>
  /\ restart_request[m] /\ recording[m]
  /\ restart_attempt[m] + 1 < DEFAULT_MAX_RETRY_ATTEMPT
  /\ n < par[m].buffers_number
  /\ ~fx3ok => n = 0
  /\ restart_attempt' = [restart_attempt EXCEPT ![m] = @ + 1]
  /\ restart_request' = [restart_request EXCEPT ![m] = ~fx3ok]
  /\ submitted' = [submitted EXCEPT ![m] = [i \in 1..n |-> i]]
  /\ wpc' = [wpc EXCEPT ![m] = "done"]
  /\ thread_exception' = [thread_exception EXCEPT ![m] = TRUE]
  /\ UNCHANGED <<par, recording, transfer_index, signal_q, delivered, emitted,
                 h5_written, callback_got, taken, stop_called, fatal>>

\* "while any( x.isSubmitted() ... )" after the flush transfers were submitted
FlushDrained_NoWait == TRUE
FlushDrained == usb.flush = 0

DevOthers == UNCHANGED <<hubVars, srvVars, recVars, act, sched, play, extVars>>

DevRun == (\E p \in DeviceParams : Run(1, p)) /\ UNCHANGED usb /\ DevOthers

DevStop == Stop(1) /\ UNCHANGED usb /\ DevOthers

\* the setup: the device is not found, or it is configured and started, the
\* H5 file is opened and the transfers are submitted
DevSetup ==
  \E o \in {"ok", "nodevice"} :
    /\ TransferSetup(1, o)
    /\ usb' = IF o = "ok"
              THEN [usb EXCEPT !.cmds = SetupCommands(par[1]),
                               !.h5file = IF par[1].h5_recording THEN "open" ELSE @]
              ELSE usb
    /\ DevOthers

\* command k+1 of the setup raises (k = 7: h5_init raises)
DevSetupCtrlRaise ==
  \E k \in 0..Len(SetupCommands(par[1])) :
    /\ k = Len(SetupCommands(par[1])) => par[1].h5_recording
    /\ TransferSetup(1, "ctrlfail")
    /\ usb' = [usb EXCEPT !.cmds = SubSeq(SetupCommands(par[1]), 1, k)]
    /\ DevOthers

DevSetupSubmitRaise ==
  \E n \in 0..1 :
    /\ TransferSetupRaise(1, n)
    /\ usb' = [usb EXCEPT !.cmds = SetupCommands(par[1]),
                          !.h5file = IF par[1].h5_recording THEN "open" ELSE @]
    /\ DevOthers

\* one completion in the recording loop; usb.last keeps what processRun was
\* given and what it did
DevHandleEvents ==
  \E st \in TransferStatus, subok \in BOOLEAN :
  \E full \in (IF st = "COMPLETED" THEN BOOLEAN ELSE {TRUE}),
     aligned \in (IF st = "COMPLETED" /\ par[1].counter THEN BOOLEAN ELSE {TRUE}),
     h5ok \in (IF st = "COMPLETED" /\ par[1].h5_recording THEN BOOLEAN ELSE {TRUE}) :
    /\ delivered[1] < MaxDevFrames
    /\ ProcessRun(1, st, full, aligned, h5ok, TRUE, subok)
    /\ (restart_request'[1] /\ ~restart_request[1]) => usb.misaligned < MaxMisaligned
    /\ usb' = [usb EXCEPT
                 !.misaligned = IF restart_request'[1] /\ ~restart_request[1]
                                THEN @ + 1 ELSE @,
                 !.last = [st |-> st, full |-> full, subok |-> subok,
                           recording |-> recording[1],
                           pending |-> restart_request[1],
                           emit |-> emitted' # emitted,
                           resub |-> Len(submitted'[1]) = Len(submitted[1]),
                           stopping |-> ~recording'[1]]]
    /\ DevOthers

\* the recording loop once no transfer is submitted: restart (ctrlResetFx3,
\* then every transfer is submitted), abort, or end of the loop
DevRecordingLoop ==
  /\ RecordingLoop(1)
  /\ usb' = IF submitted'[1] # <<>>
            THEN [usb EXCEPT !.cmds = Append(@, "resetfx3")]
            ELSE [usb EXCEPT !.pc = "close"]
  /\ DevOthers

DevRecordingLoopRaise ==
  \E fx3ok \in BOOLEAN, n \in 0..1 :
    /\ RecordingLoopRaise(1, fx3ok, n)
    /\ usb' = IF fx3ok THEN [usb EXCEPT !.cmds = Append(@, "resetfx3")] ELSE usb
    /\ DevOthers

\* after the loop: h5_close, then the transfers still submitted are
\* cancelled and handleEvents is called until none is submitted (none is,
\* the recording loop is only left when no transfer is submitted)
DevShutdownClose ==
  /\ wpc[1] = "closing" /\ usb.pc = "close"
  /\ submitted[1] = <<>>
  /\ usb' = [usb EXCEPT !.pc = "stop",
                        !.h5file = IF par[1].h5_recording THEN "closed" ELSE @]
  /\ UNCHANGED mmVars /\ DevOthers

\* ctrlStop, then the flush transfers are submitted (a submit that raises is
\* logged: n of them are in flight)
DevShutdownStop ==
  \E n \in 0..par[1].buffers_number :
    /\ wpc[1] = "closing" /\ usb.pc = "stop"
    /\ usb' = [usb EXCEPT !.pc = "flush", !.cmds = Append(@, "stop"), !.flush = n]
    /\ UNCHANGED mmVars /\ DevOthers

\* handleEvents while flush transfers are in flight: processFlush logs the
\* length of the flushed data
DevFlushEvent ==
  /\ wpc[1] = "closing" /\ usb.pc = "flush"
  /\ usb.flush > 0
  /\ usb' = [usb EXCEPT !.flush = @ - 1, !.flushed = @ + 1]
  /\ UNCHANGED mmVars /\ DevOthers

\* ctrlResetMu32 and the end of the thread
DevShutdownReset ==
  /\ usb.pc = "flush" /\ FlushDrained
  /\ TransferShutdown(1, TRUE)
  /\ usb' = [usb EXCEPT !.pc = "end", !.cmds = Append(@, "resetmu32")]
  /\ DevOthers

\* ctrlStop or ctrlResetMu32 raises: the exception leaves the 'try'
DevShutdownRaise ==
  /\ usb.pc = "stop" \/ (usb.pc = "flush" /\ FlushDrained)
  /\ TransferShutdown(1, FALSE)
  /\ usb' = [usb EXCEPT !.pc = "end"]
  /\ DevOthers

InitDevice == MMInit /\ HubIdle /\ SrvInit /\ RecIdle /\ AuxIdle /\ ExtIdle

NextDevice ==
  \/ DevRun
  \/ DevStop
  \/ DevSetup
  \/ DevSetupCtrlRaise
  \/ DevSetupSubmitRaise
  \/ DevHandleEvents
  \/ DevRecordingLoop
  \/ DevRecordingLoopRaise
  \/ DevShutdownClose
  \/ DevShutdownStop
  \/ DevFlushEvent
  \/ DevShutdownReset
  \/ DevShutdownRaise

SpecDevice == InitDevice /\ [][NextDevice]_vars

\* the device was sent the command c
Sent(c) == \E i \in 1..Len(usb.cmds) : usb.cmds[i] = c

Started == Sent("start") \/ Sent("starttrig")

\* C25: on every path by which the worker terminates after it started the
\* device and opened the H5 file, the H5 file is closed, the device was sent
\* the stop command and no transfer is left submitted
C25_WorkerCleansUp ==
  (wpc[1] = "done" /\ Started /\ usb.h5file # "none")
    => /\ usb.h5file = "closed"
       /\ Sent("stop")
       /\ submitted[1] = <<>> /\ usb.flush = 0


\* the last command the device was sent
LastCommand == IF usb.cmds = <<>> THEN "none" ELSE usb.cmds[Len(usb.cmds)]

\* C28: once a misalignment is detected, no frame is emitted and no transfer
\* is resubmitted until every in-flight transfer has completed and the FX3
\* reset has been issued; only then are all buffers_number transfers
\* resubmitted together
C28_RestartDrainsFirst ==
  [][restart_request[1] =>
       /\ emitted' = emitted /\ signal_q' = signal_q /\ h5_written' = h5_written
       /\ \/ Len(submitted'[1]) <= Len(submitted[1])
          \/ /\ submitted[1] = <<>>
             /\ usb'.cmds = Append(usb.cmds, "resetfx3")
             /\ wpc'[1] = "loop" => Len(submitted'[1]) = par[1].buffers_number]_vars

\* a restart took place: after a misalignment the FX3 was reset and every
\* transfer is submitted again
C28_Witness ==
  /\ wpc[1] = "loop" /\ usb.misaligned > 0 /\ ~restart_request[1]
  /\ LastCommand = "resetfx3"
  /\ Len(submitted[1]) = par[1].buffers_number

\* C29: a completion whose status is not Completed never emits a frame; it
\* is resubmitted if and only if the status is Timeout, start_trig is set
\* and the session is still recording; every other non-completed status
\* marks the session as stopping; a Completed transfer shorter than a full
\* frame is dropped without emission and resubmitted
C29_CompletionStatus ==
  LET l == usb.last
      retried == l.st = "TIMED_OUT" /\ par[1].start_trig /\ l.recording
  IN /\ (l.st \notin {"none", "COMPLETED"}) =>
          /\ ~l.emit
          /\ l.resub => retried
          /\ (retried /\ l.subok) => l.resub
          /\ ~retried => l.stopping
     /\ (l.st = "COMPLETED" /\ ~l.full) =>
          /\ ~l.emit
          /\ l.subok => l.resub

\* the last flush transfer completed
AllFlushed == usb.flush = 0

\* C30: the start command comes after all configuration commands; the stop
\* command is issued only when no transfer is submitted; flush transfers are
\* submitted only after the stop command and never emit a frame; the final
\* full reset is issued only after every flush transfer has completed
C30_ShutdownOrder ==
  /\ [](/\ \A i \in 1..Len(usb.cmds) :
            usb.cmds[i] \in {"start", "starttrig"} =>
              \A k \in 1..Len(ConfigCommands) :
                \E j \in 1..(i - 1) : usb.cmds[j] = ConfigCommands[k]
        /\ (usb.flush > 0 \/ usb.flushed > 0) => Sent("stop"))
  /\ [][/\ (~Sent("stop") /\ Sent("stop")') => (submitted[1] = <<>> /\ usb.flush = 0)
        /\ usb'.flushed # usb.flushed =>
             (emitted' = emitted /\ signal_q' = signal_q /\ h5_written' = h5_written)
        /\ (Sent("stop") /\ usb'.cmds = Append(usb.cmds, "resetmu32")) => AllFlushed]_vars

\* a session was shut down after its flush transfers completed
C30_Witness ==
  /\ wpc[1] = "done" /\ usb.pc = "end" /\ LastCommand = "resetmu32"
  /\ Sent("stop") /\ usb.flushed = par[1].buffers_number
  /\ delivered[1] > 0


\* C29 as the code has it: while a restart is pending a completion is
\* dropped, whatever its status; otherwise a completion whose status is not
\* Completed emits no frame, is resubmitted exactly when the status is
\* Timeout, start_trig is set, the session is recording and the submit does
\* not raise, and any other such status marks the session as stopping; a
\* short Completed transfer emits no frame and is resubmitted exactly when
\* the session is recording and the submit does not raise
C29_CompletionStatus_Amended ==
  LET l == usb.last
      retried == l.st = "TIMED_OUT" /\ par[1].start_trig /\ l.recording
  IN /\ (l.st # "none" /\ l.pending) =>
          (~l.emit /\ ~l.resub /\ (l.stopping <=> ~l.recording))
     /\ (l.st \notin {"none", "COMPLETED"} /\ ~l.pending) =>
          /\ ~l.emit
          /\ l.resub <=> (retried /\ l.subok)
          /\ ~retried => l.stopping
     /\ (l.st = "COMPLETED" /\ ~l.full /\ ~l.pending) =>
          /\ ~l.emit
          /\ l.resub <=> (l.recording /\ l.subok)

\* a transfer that timed out while the trigger is awaited was resubmitted
C29_Witness ==
  /\ usb.last.st = "TIMED_OUT" /\ usb.last.resub
  /\ wpc[1] = "loop" /\ recording[1]


(***************************************************************************)
(* The H5 player (MuH5): run, ctrl_thread, transfer_loop, stop             *)
(***************************************************************************)
MaxFiles == 2

MaxDatasets == 2

MaxPasses == 2

\* samples per dataset of the files played (the attribute dataset_length)
PlayDatasetLength == 4

\* sample k of dataset ds of file f (all the channels of the file), and the
\* zero sample of the padding
Sample(f, ds, k) == <<f, ds, k>>
Zero == <<-1, -1, -1>>

\* transfer_buffer[:, a:b] of the dataset ds loaded from file f (python
\* slice: samples a .. b-1, cut at the end of the dataset)
Slice(f, ds, a, b) ==
  [i \in 1..(Min(b, PlayDatasetLength) - a) |-> Sample(f, ds, a + i - 1)]

Zeros(n) == [i \in 1..n |-> Zero]

\* the dataset that is read when a frame crosses the end of the loaded
\* dataset: file['muh5/' + str( self._h5_dataset_index ) + '/sig']
NextDataset(dataset_index) == dataset_index

\* run( h5_start_time=start, h5_loop=loop, ... ) on an object that holds
\* nfiles files: the control thread is started
MuH5Run(nfiles, ndatasets, bl, count, start, loop) ==
  /\ play.pc = "idle"
  /\ play' = [play EXCEPT !.pc = "for", !.files = nfiles, !.datasets = ndatasets,
                          !.buffer_length = bl, !.transfers_count = count,
                          !.start = start, !.loop = loop]

\* stop(): self._h5_playing = False
MuH5Stop ==
  /\ play.pc \notin {"idle", "done"}
  /\ play' = [play EXCEPT !.h5_playing = FALSE, !.stop_called = TRUE]

\* ctrl_thread takes the next file of the list and transfer_loop runs up to
\* its reading loop: "if index > 0: self._h5_start_time = 0", then
\* run_setargs( self._h5_run_kwargs ) assigns self._h5_start_time from the
\* arguments of run, self._h5_playing = True, and the first dataset is read
MuH5Open ==
  /\ play.pc = "for"
  /\ LET \* ctrl_thread: "if index > 0: self._h5_start_time = 0"
         reset == IF play.index > 0 THEN 0 ELSE play.h5_start_time
         \* run_setargs: "self._h5_start_time = h5_start_time", whatever reset is
         h5_start_time == IF play.start # reset THEN play.start ELSE reset
         \* start_time * sampling_frequency, in samples:
         \* h5_start_time percent of the duration of the file
         first == (h5_start_time * play.datasets * PlayDatasetLength) \div 100
         dataset_index == IF first > 0 THEN first \div PlayDatasetLength ELSE 0
         ptr == IF first > 0 THEN first % PlayDatasetLength ELSE 0
     IN play' = [play EXCEPT
                   !.pc = "playing",
                   !.h5_start_time = h5_start_time,
                   !.h5_playing = TRUE,
                   !.transfer_index = 0,
                   !.h5_dataset_index = dataset_index,
                   !.h5_dataset_index_ptr = ptr,
                   !.loaded = dataset_index,
                   !.starts = Append(@, [file |-> play.index, pass |-> play.pass,
                                         dataset |-> dataset_index, ptr |-> ptr,
                                         stopped |-> play.stop_called])]

\* one iteration of the reading loop of transfer_loop: a frame is emitted
MuH5Transfer ==
  /\ play.pc = "playing"
  /\ play.h5_playing
  /\ LET f == play.index
         ptr == play.h5_dataset_index_ptr
         bl == play.buffer_length
         inside == ptr + bl <= PlayDatasetLength
         more == play.h5_dataset_index < play.datasets
         last == PlayDatasetLength - ptr
         next == NextDataset(play.h5_dataset_index)
         frame == IF inside THEN Slice(f, play.loaded, ptr, ptr + bl)
                  ELSE IF more
                  THEN Slice(f, play.loaded, ptr, ptr + PlayDatasetLength)
                         \o Slice(f, next, 0, bl - last)
                  ELSE Slice(f, play.loaded, ptr, PlayDatasetLength)
                         \o Zeros(bl - PlayDatasetLength + ptr)
         idx == play.transfer_index + 1
         playing == /\ (inside \/ more)
                    /\ ~(play.transfers_count # 0 /\ idx >= play.transfers_count)
     IN play' = [play EXCEPT
                   !.out = @ \o frame,
                   !.late = @ \/ play.starts[Len(play.starts)].stopped,
                   !.h5_dataset_index_ptr = IF inside THEN ptr + bl
                                            ELSE IF more THEN bl - last ELSE ptr,
                   !.h5_dataset_index = IF ~inside /\ more THEN @ + 1 ELSE @,
                   !.loaded = IF ~inside /\ more THEN next ELSE @,
                   !.transfer_index = idx,
                   !.h5_playing = playing]

\* the reading loop is left, transfer_loop returns: ctrl_thread goes to the
\* next file, or to the first one again when h5_loop is set, or ends
MuH5Close ==
  /\ play.pc = "playing"
  /\ ~play.h5_playing
  /\ IF play.index + 1 < play.files
     THEN play' = [play EXCEPT !.pc = "for", !.index = @ + 1]
     ELSE IF play.loop
     THEN /\ play.pass < MaxPasses
          /\ play' = [play EXCEPT !.pc = "for", !.index = 0, !.pass = @ + 1]
     ELSE play' = [play EXCEPT !.pc = "done"]

PlayOthers == UNCHANGED <<mmVars, hubVars, srvVars, recVars, act, usb, sched, extVars>>

PlayRun ==
  \E nfiles \in 1..MaxFiles, ndatasets \in 1..MaxDatasets, bl \in {2, 3},
     count \in {0, 2}, start \in {0, 50}, loop \in BOOLEAN :
    MuH5Run(nfiles, ndatasets, bl, count, start, loop) /\ PlayOthers
PlayStop == MuH5Stop /\ PlayOthers
PlayOpen == MuH5Open /\ PlayOthers
PlayTransfer == MuH5Transfer /\ PlayOthers
PlayClose == MuH5Close /\ PlayOthers

InitPlay == MMInit /\ HubIdle /\ SrvInit /\ RecIdle /\ AuxIdle /\ ExtIdle

NextPlay == PlayRun \/ PlayStop \/ PlayOpen \/ PlayTransfer \/ PlayClose

SpecPlay == InitPlay /\ [][NextPlay]_vars

\* the samples of the datasets 0 .. n-1 of file f, in order
RECURSIVE Datasets(_, _)
Datasets(f, n) ==
  IF n = 0 THEN <<>>
  ELSE Datasets(f, n - 1) \o Slice(f, n - 1, 0, PlayDatasetLength)

\* C21: playing a file of N datasets from the start with duration=0 emits
\* frames whose concatenation equals datasets 0 .. N-1 in that order, each
\* exactly once, followed only by the zero padding of the last frame
C21_PlaysEachDatasetOnce ==
  (/\ play.pc = "done" /\ play.files = 1 /\ play.start = 0
   /\ play.transfers_count = 0 /\ ~play.stop_called)
    => LET all == Datasets(0, play.datasets)
       IN /\ Len(play.out) >= Len(all)
          /\ SubSeq(play.out, 1, Len(all)) = all
          /\ \A i \in (Len(all) + 1)..Len(play.out) : play.out[i] = Zero
          /\ Len(play.out) - Len(all) <= play.buffer_length

\* C22: the start offset applies only to the first pass over the first
\* file: every following file, and the first file again after an h5_loop
\* restart, is played from its first sample
C22_OffsetOnlyOnce ==
  \A i \in 2..Len(play.starts) :
    play.starts[i].dataset = 0 /\ play.starts[i].ptr = 0

\* C23: after stop() the control worker emits no frame of a further file,
\* also when h5_loop is true or files remain, and also when stop() is
\* called before the worker has started playing the first file
C23_StopEndsPlayer == ~play.late


(***************************************************************************)
(* The samples of the H5 recorder: h5_init, h5_init_file and h5_write_mems *)
(* on the cache _h5_buffer, one channel wide                               *)
(***************************************************************************)
\* the number of frames one session hands to the recorder
MaxWrites == 8

\* column j of the frame of transfer k
Column(k, j) == <<k, j>>

\* the frame of transfer k, buffer_length columns
Signal(k, buffer_length) == [j \in 1..buffer_length |-> Column(k, j)]

\* np.zeros( shape=( channels, n ) )
NpZeros(n) == [i \in 1..n |-> 0]

\* buf[:, a:b] = src, the slice a:b clipped to the width of buf as numpy does
SliceAssign(buf, a, b, src) ==
  [i \in 1..Len(buf) |-> IF a < i /\ i <= Min(b, Len(buf)) THEN src[i - a] ELSE buf[i]]

\* h5_init_file: a new file becomes the current one, _h5_dataset_index = 0
h5_init_file(w) == [w EXCEPT !.files = Append(@, <<>>), !.dataset_index = 0]

\* h5_init: dataset number and length from the durations, the cache
\* allocated, its cursor at 0, the first file created
h5_init(w, buffer_length, sampling_frequency, dataset_duration, file_duration) ==
  h5_init_file([w EXCEPT !.pc = "open",
                         !.buffer_length = buffer_length,
                         !.file_duration = file_duration,
                         !.dataset_duration = dataset_duration,
                         !.dataset_number = file_duration \div dataset_duration,
                         !.dataset_length = dataset_duration * sampling_frequency,
                         !.buffer = NpZeros(dataset_duration * sampling_frequency),
                         !.buffer_index = 0])

\* the cursor after the tail of the frame was copied to the start of the cache
TailCursor(w, transf_samples_number) == w.buffer_length - transf_samples_number

\* h5_write_mems
h5_write_mems(w, signal) ==
  IF w.buffer_index + w.buffer_length < w.dataset_length
  THEN [w EXCEPT !.buffer = SliceAssign(@, w.buffer_index,
                                        w.buffer_index + w.buffer_length, signal),
                 !.buffer_index = @ + w.buffer_length,
                 !.frames = Append(@, signal)]
  ELSE LET transf_samples_number == w.dataset_length - w.buffer_index
           buffer1 == SliceAssign(w.buffer, w.buffer_index,
                                  w.buffer_index + w.dataset_length,
                                  SubSeq(signal, 1, transf_samples_number))
           w1 == IF w.dataset_index >= w.dataset_number THEN h5_init_file(w) ELSE w
           w2 == [w1 EXCEPT !.files[Len(w1.files)] = Append(@, buffer1),
                            !.dataset_index = @ + 1]
       IN [w2 EXCEPT !.buffer = SliceAssign(buffer1, 0,
                                            w.buffer_length - transf_samples_number,
                                            SubSeq(signal, transf_samples_number + 1,
                                                   w.buffer_length)),
                     !.buffer_index = TailCursor(w, transf_samples_number),
                     !.frames = Append(@, signal)]

WrOthers == UNCHANGED <<mmVars, hubVars, srvVars, recVars, auxVars, prod, ws>>

\* a recording session starts: buffer_length <= dataset_length
WrInit ==
  /\ wr.pc = "idle"
  /\ \E sf \in {1, 2}, dd \in {1, 2}, fd \in {1, 2, 3} :
       \E bl \in 1..(dd * sf) : wr' = h5_init(wr, bl, sf, dd, fd)
  /\ WrOthers

\* processRun hands the frame of the next transfer to h5_write_mems
WrWrite ==
  /\ wr.pc = "open"
  /\ Len(wr.frames) < MaxWrites
  /\ wr' = h5_write_mems(wr, Signal(Len(wr.frames) + 1, wr.buffer_length))
  /\ WrOthers

InitWrite == MMInit /\ HubIdle /\ SrvInit /\ RecIdle /\ AuxIdle /\ ExtIdle

NextWrite == WrInit \/ WrWrite

SpecWrite == InitWrite /\ [][NextWrite]_vars

\* the samples of all datasets, over the files in creation order
PersistedSamples == Concat([f \in 1..Len(wr.files) |-> Concat(wr.files[f])])

\* persisted datasets, then the cache up to the cursor, are the frames written
WrContentKept ==
  PersistedSamples \o SubSeq(wr.buffer, 1, wr.buffer_index) = Concat(wr.frames)

\* the cursor stays in [0, dataset_length)
WrCursorInRange == 0 <= wr.buffer_index /\ wr.buffer_index < wr.dataset_length

\* no file holds more than floor(file_duration / dataset_duration) datasets
WrFileBound ==
  \A f \in 1..Len(wr.files) : Len(wr.files[f]) <= wr.file_duration \div wr.dataset_duration

\* C31: for buffer_length <= dataset_length, after any sequence of writes the
\* persisted datasets followed by the cache up to the cursor are the frames
\* written so far, the cursor is in [0, dataset_length), and no file holds
\* more than floor(file_duration / dataset_duration) datasets.
C31_RecorderKeepsFrames ==
  wr.pc = "open" => WrContentKept /\ WrCursorInRange /\ WrFileBound


(***************************************************************************)
(* Properties of the rmjob request of the scheduler                        *)
(***************************************************************************)
\* the step serves an rmjob request
RmjobStep == sched'.command = "rmjob" /\ sched' # sched

\* the task_id of a task of the list
Known(tasks, task_id) == \E i \in 1..Len(tasks) : tasks[i].task_id = task_id

\* C32: an rmjob for a task whose status is active is refused with an error
\* reply and leaves the task list unchanged; an rmjob for an unknown task_id
\* is refused as not found; only a task that is not active is removed.
C32_ActiveJobNotRemoved ==
  [][RmjobStep =>
       LET task_id == sched'.task_id IN
       IF ~Known(sched.tasks, task_id)
       THEN sched'.reply = "job not found" /\ sched'.tasks = sched.tasks
       ELSE IF sched_get_status(sched.tasks, task_id) = "active"
       THEN sched'.reply = "job is active" /\ sched'.tasks = sched.tasks
       ELSE sched'.reply = "OK" /\ ~Known(sched'.tasks, task_id)]_vars

\* C36: a pending job that was removed with rmjob before its start time never
\* executes: after the OK reply no acquisition is started for that task.
C36_RemovedJobNeverRuns ==
  \A i \in 1..Len(sched.timers) :
    sched.timers[i].task_id \in sched.removed => sched.timers[i].state = "armed"


(***************************************************************************)
(* Properties of the subscriber list over the life of a run service        *)
(***************************************************************************)
\* handler_service_run is executing for some connection
RunServiceActive == \E c \in Conn : cpc[c] \in HandlerPositions

\* the test of service_listen for "There is no running task"
NoRunningTask == srv.broadcast_none \/ Len(srv.broadcast_connected) = 0

\* C33: the subscriber list exists exactly while a run service is active:
\* once the run service has ended, by whatever path, the list is torn down
\* and a listen request is rejected as "no running task".
C33_ListTornDown == RunServiceActive <=> ~NoRunningTask


(***************************************************************************)
(* Properties of a listen request served while the run service ends        *)
(***************************************************************************)
\* the replies to a request among the messages sent on a connection
RepliesTo(log) == FilterSeq(log, {Reply("OK"), Reply("NOT OK")})

\* the connection asked to listen and its request was served
ListenServed(c) ==
  cpc[c] = "recv" /\ inbox[c] = <<>> /\ cmsg[c].request # "run"

\* the step ends service_listen for connection c after its OK reply
ListenAppendStep(c) == cpc[c] = "listen_append" /\ cpc'[c] # "listen_append"

\* C37: every listen request gets exactly one reply, and a client that was
\* sent the OK acceptance is registered in the subscriber list, also when the
\* run session ends between the acceptance reply and the registration.
C37_ListenRepliedOnce ==
  /\ [](\A c \in Conn : cmsg[c].request # "run" => Len(RepliesTo(sent[c])) <= 1)
  /\ [](\A c \in Conn : ListenServed(c) => Len(RepliesTo(sent[c])) = 1)
  /\ [][\A c \in Conn :
          ListenAppendStep(c) => /\ c \in Listeners(srv'.broadcast_connected)
                                 /\ sent'[c] = sent[c]]_vars


(***************************************************************************)
(* Properties of the sample queue across sessions                          *)
(***************************************************************************)
\* the frames among the messages sent on a connection
FramesSent(log) == {log[i] : i \in {j \in 1..Len(log) : log[j][1] = "frame"}}

\* C35: every frame delivered to the consumer of a session was produced by
\* that session: the queue a session writes to holds no frame of an earlier
\* session or of another device object when the session starts.
C35_FramesOfOwnSession ==
  \A c \in Conn : \A f \in FramesSent(sent[c]) : f[2] = cmm[c]


(***************************************************************************)
(* The emission step of processRun on a bounded queue, statement by        *)
(* statement, with a consumer that takes frames from another thread        *)
(***************************************************************************)
\* the queue sizes of the sessions
QueueSizes == {1, 2}

\* the frames one session emits
MaxEmitted == 5

\* 'if self._queue_size > 0 and self._signal_q.qsize() >= self._queue_size'
QueueFilled(q, queue_size) == queue_size > 0 /\ Len(q) >= queue_size

\* the test of the emission step: the worker goes on to evict, or to put
ProcessRunTest ==
  /\ prod.pc = "test"
  /\ prod.transfer_index < MaxEmitted
  /\ prod' = [prod EXCEPT !.pc = IF QueueFilled(signal_q, prod.queue_size)
                                 THEN "get" ELSE "put"]
  /\ UNCHANGED <<signal_q, taken>>

\* 'self._signal_q.get()': Queue.get() without timeout returns once the
\* queue holds a frame, and waits as long as it is empty
ProcessRunGet ==
  /\ prod.pc = "get"
  /\ signal_q # <<>>
  /\ signal_q' = QueueGet(signal_q).rest
  /\ prod' = [prod EXCEPT !.pc = "put"]
  /\ UNCHANGED taken

\* 'self._signal_q.put( data )'
ProcessRunPut ==
  /\ prod.pc = "put"
  /\ signal_q' = Append(signal_q, Frame(1, prod.transfer_index + 1))
  /\ prod' = [prod EXCEPT !.pc = "test", !.transfer_index = @ + 1]
  /\ UNCHANGED taken

\* the consumer: mm.signal_q.get() in the thread of the caller, or of the
\* run service
ConsumerGet ==
  /\ signal_q # <<>>
  /\ signal_q' = QueueGet(signal_q).rest
  /\ taken' = Append(taken, QueueGet(signal_q).item)
  /\ UNCHANGED prod

QueueOthers ==
  UNCHANGED <<wpc, par, recording, restart_request, restart_attempt, transfer_index,
              submitted, thread_exception, delivered, emitted, h5_written,
              callback_got, stop_called, fatal, hubVars, srvVars, recVars, auxVars, wr, ws>>

QueTest == ProcessRunTest /\ QueueOthers
QueGet == ProcessRunGet /\ QueueOthers
QuePut == ProcessRunPut /\ QueueOthers
QueConsume == ConsumerGet /\ QueueOthers

InitQueue ==
  /\ MMInit /\ HubIdle /\ SrvInit /\ RecIdle /\ AuxIdle /\ wr = WrIdle /\ ws = WsIdle
  /\ \E n \in QueueSizes : prod = [ProdIdle EXCEPT !.queue_size = n]

NextQueue == QueTest \/ QueGet \/ QuePut \/ QueConsume

SpecQueue == InitQueue /\ [][NextQueue]_vars

\* the transfer worker is in Queue.get() on an empty queue
ProducerWaits == prod.pc = "get" /\ signal_q = <<>>

\* C34: with a bounded queue and a consumer that takes frames concurrently,
\* the emission step never blocks: no take of the consumer between the
\* fullness test and the eviction leaves the worker waiting on an empty queue.
C34_EmissionNeverBlocks == ~ProducerWaits


(***************************************************************************)
(* The remote runner MegaMicroWS (core_ws.py) in a session with duration=0 *)
(* and the run service of the server on the other end of its connection    *)
(***************************************************************************)
\* the listeners that subscribe to the session
MaxListeners == 1

\* the messages the connection holds for the runner
MaxInflight == 2

\* the subscriber list of the session: the runner and the listeners
BroadcastList(n) == [i \in 1..(n + 1) |-> i - 1]

\* MegaMicroWS.stop(), from the thread of the caller
WsStop ==
  /\ ws.pc \in {"recv", "while"}
  /\ ~ws.stop_called
  /\ ws' = [ws EXCEPT !.recording = FALSE, !.stop_called = TRUE]

\* 'data = await websocket.recv()' returns a message: END leaves the loop, a
\* frame is processed
WsRecv ==
  /\ ws.pc = "recv"
  /\ ws.inbox # <<>>
  /\ ws' = [ws EXCEPT !.inbox = Tail(@),
                      !.pc = IF Head(ws.inbox) = "END" THEN "after" ELSE "while"]

\* 'while self._recording'
WsWhile ==
  /\ ws.pc = "while"
  /\ ws' = [ws EXCEPT !.pc = IF ws.recording THEN "recv" ELSE "after"]

\* after the loop: 'if not self._recording' the stop request is sent
WsAfter ==
  /\ ws.pc = "after"
  /\ ws' = [ws EXCEPT !.pc = "done",
                      !.outbox = IF ws.recording THEN @ ELSE Append(@, "stop"),
                      !.stop_sent = ~ws.recording]

\* service_listen registers a listener of the session
WsListen ==
  /\ ws.srv_pc # "ended"
  /\ ws.listeners < MaxListeners
  /\ ws' = [ws EXCEPT !.listeners = @ + 1]

\* the client left 'async with websockets.connect(...)': the connection is
\* closed
WsClosed == ws.pc = "done"

\* handler_service_run: a frame is taken from the queue and sent to the
\* hosts of the list, to the runner unless the stream is skipped; a send on
\* the closed connection of the runner raises and the service stops the
\* acquisition
WsServerFanout ==
  /\ ws.srv_pc = "get"
  /\ ws.srv_recording
  /\ LET to_runner == SendToRunner(ws.stream_skip, BroadcastList(ws.listeners)) IN
     IF to_runner /\ WsClosed
     THEN ws' = [ws EXCEPT !.srv_recording = FALSE, !.srv_pc = "ended"]
     ELSE /\ to_runner => Len(ws.inbox) < MaxInflight
          /\ ws' = [ws EXCEPT !.inbox = IF to_runner THEN Append(@, "frame") ELSE @,
                              !.parity = 1 - @,
                              !.srv_pc = "recvcheck"]

\* handler_service_run: a message of the runner is waited for 0.1 ms; a stop
\* request stops the acquisition, and so does the exception of a recv on the
\* closed connection
WsServerRecvCheck ==
  /\ ws.srv_pc = "recvcheck"
  /\ IF ws.outbox # <<>>
     THEN ws' = [ws EXCEPT !.srv_pc = "get", !.outbox = Tail(@), !.srv_recording = FALSE]
     ELSE IF WsClosed
     THEN ws' = [ws EXCEPT !.srv_pc = "ended", !.srv_recording = FALSE]
     ELSE ws' = [ws EXCEPT !.srv_pc = "get"]

\* handler_service_run: no frame for 2 s, END is sent to the runner
WsServerEnd ==
  /\ ws.srv_pc = "get"
  /\ ~ws.srv_recording
  /\ ~WsClosed => Len(ws.inbox) < MaxInflight
  /\ ws' = [ws EXCEPT !.srv_pc = "ended",
                      !.inbox = IF WsClosed THEN @ ELSE Append(@, "END")]

RemoteOthers == UNCHANGED <<mmVars, hubVars, srvVars, recVars, auxVars, wr, prod>>

RemoteStop == WsStop /\ RemoteOthers
RemoteRecv == WsRecv /\ RemoteOthers
RemoteWhile == WsWhile /\ RemoteOthers
RemoteAfter == WsAfter /\ RemoteOthers
RemoteListen == WsListen /\ RemoteOthers
RemoteFanout == WsServerFanout /\ RemoteOthers
RemoteRecvCheck == WsServerRecvCheck /\ RemoteOthers
RemoteEnd == WsServerEnd /\ RemoteOthers

InitRemote ==
  /\ MMInit /\ HubIdle /\ SrvInit /\ RecIdle /\ AuxIdle /\ wr = WrIdle /\ prod = ProdIdle
  /\ \E stream_skip \in BOOLEAN : ws = [WsIdle EXCEPT !.stream_skip = stream_skip]

NextRemote ==
  \/ RemoteStop
  \/ RemoteRecv
  \/ RemoteWhile
  \/ RemoteAfter
  \/ RemoteListen
  \/ RemoteFanout
  \/ RemoteRecvCheck
  \/ RemoteEnd

\* the coroutine of the client and the run service of the server are
\* scheduled whenever they can take a step; the caller and the listeners do
\* what they want
RemoteFairness ==
  /\ WF_vars(RemoteRecv) /\ WF_vars(RemoteWhile) /\ WF_vars(RemoteAfter)
  /\ WF_vars(RemoteFanout) /\ WF_vars(RemoteRecvCheck) /\ WF_vars(RemoteEnd)

SpecRemote == InitRemote /\ [][NextRemote]_vars /\ RemoteFairness

\* C38: when the remote runner calls stop() during a session with duration=0,
\* a stop request is eventually sent to the server and the server's
\* acquisition session eventually stops, also when stream_skip is set and
\* listeners are subscribed so that the runner receives no frame.
C38_RemoteStopReachesServer ==
  ws.stop_called ~> (ws.stop_sent /\ ~ws.srv_recording)


(***************************************************************************)
(* Specification of the sessions of the server that wait for the external  *)
(* trigger: every client asks for a run with start_trig and duration=0     *)
(***************************************************************************)
TriggerRequests ==
  {[NoRequest EXCEPT !.request = "run",
                     !.parameters = [BasePar EXCEPT !.duration = 0, !.start_trig = TRUE]]}

\* a transfer completes, or times out while the trigger is waited for
TriggerStatus == ServerStatus \cup {"TIMED_OUT"}

TrigConnect ==
  \E c \in 1..NumRunners : \E req \in TriggerRequests :
     ClientConnect(c, req) /\ UNCHANGED <<hubVars, recVars, auxVars, extVars>>

TrigHandleEvents ==
  \E m \in MM : HandleEvents(m, TriggerStatus, {TRUE})
                  /\ UNCHANGED <<hubVars, srvVars, recVars, auxVars, extVars>>

NextTrigger ==
  \/ TrigConnect
  \/ TrigHandleEvents
  \/ SrvHandlerRecv
  \/ SrvRunAcquire
  \/ SrvHandlerStart
  \/ SrvHandlerGet
  \/ SrvHandlerGetEmpty
  \/ SrvHandlerFanout
  \/ SrvHandlerRemove
  \/ SrvHandlerRecvCheck
  \/ SrvHandlerEnd
  \/ SrvRunWait
  \/ SrvTransferSetup
  \/ SrvRecordingLoop
  \/ SrvShutdown

SpecTrigger == InitServer /\ [][NextTrigger]_vars

\* the run service of connection c has sent END to the runner and
\* service_run is in mm.wait()
EndedWithEND(c) ==
  /\ cpc[c] = "wait"
  /\ sent[c] # <<>>
  /\ sent[c][Len(sent[c])] = Reply("END")

\* C39: whenever the run service ends and sends END to the runner, the
\* acquisition worker has stopped or is stopped by the service, so that the
\* wait of service_run on the worker returns; also when the service ends
\* because no frame arrived for 2 s in a session with duration=0.
C39_WorkerStoppedAtEnd ==
  \A c \in Conn : EndedWithEND(c) => ~recording[cmm[c]]


(***************************************************************************)
(* Specification of a session whose listener sends a stop message: the     *)
(* first client is the runner, the second one a listener                   *)
(***************************************************************************)
\* the message the remote runner sends after its loop; here a listener's
\* connection sends it
StopMessage == [NoRequest EXCEPT !.request = "stop"]

\* a client sends a message on its open connection
ClientSend(c, msg) ==
  /\ peer[c] = "open"
  /\ inbox' = [inbox EXCEPT ![c] = Append(@, msg)]
  /\ UNCHANGED <<cpc, turn, peer, sent, srv, cmm, cmsg, hs, job>>
  /\ UNCHANGED mmVars

SecondConn == FirstConn + 1

LstConnect ==
  \E c \in {FirstConn, SecondConn} : \E req \in BroadcastRequests(c) :
     ClientConnect(c, req) /\ UNCHANGED <<hubVars, recVars, auxVars, extVars>>

\* the listener sends stop once its listen request was replied to
LstSendStop ==
  /\ cpc[SecondConn] = "recv"
  /\ inbox[SecondConn] = <<>>
  /\ Len(sent[SecondConn]) >= 1
  /\ Len(FilterSeq(sent[SecondConn], {Reply("NOT OK")})) = 0
  /\ ClientSend(SecondConn, StopMessage)
  /\ UNCHANGED <<hubVars, recVars, auxVars, extVars>>

NextListenerStop ==
  \/ LstConnect
  \/ LstSendStop
  \/ SrvListenAppend
  \/ NextSession

SpecListenerStop == InitServer /\ [][NextListenerStop]_vars

\* the step in which handler() takes a stop message from connection c and
\* finds the connection open
StopTakenStep(c) ==
  /\ inbox[c] # <<>>
  /\ Head(inbox[c]).request = "stop"
  /\ inbox'[c] = Tail(inbox[c])
  /\ peer'[c] = "open"

\* C40: only the runner can stop a session through the network: a stop
\* message sent on a listener's connection gets an error reply for an unknown
\* request and changes neither the recording flag of the acquisition session
\* nor the subscriber list.
C40_ListenerCannotStop ==
  [][\A c \in Conn :
       StopTakenStep(c) => /\ sent'[c] = Append(sent[c], Reply("NOT OK"))
                           /\ recording' = recording
                           /\ srv'.broadcast_connected = srv.broadcast_connected
                           /\ srv'.broadcast_none = srv.broadcast_none]_vars

\* a registered listener was refused its stop message while the session of
\* the runner records
C40_Witness ==
  /\ SecondConn \in Listeners(srv.broadcast_connected)
  /\ Len(sent[SecondConn]) >= 2
  /\ sent[SecondConn][1] = Reply("OK")
  /\ sent[SecondConn][Len(sent[SecondConn])] = Reply("NOT OK")
  /\ cpc[FirstConn] \in HandlerPositions
  /\ recording[srv.mm]

====
